---- MODULE Spec2Model ----
(***************************************************************************)
(* MugShot Studio backend: the thumbnail job pipeline and its credit       *)
(* ledger.                                                                 *)
(*                                                                         *)
(* The store (Supabase tables users, audit, jobs, renders; the renders     *)
(* bucket) is the shared state.  Every store call is one step, and every   *)
(* store, storage or provider call either returns or raises; a call that   *)
(* raises leaves the store unchanged.  Request handlers and job runs of    *)
(* different jobs interleave between their store calls.                    *)
(***************************************************************************)
EXTENDS Integers, Sequences, FiniteSets, Bags, TLC

\* ----------------------------------------------------------------- bounds
MaxJobs == 2
MaxImages == 2
MaxFaults == 1
MaxRequests == 4
Times == 2
MaxAuthRequests == 2
MaxRefs == 2
MaxRecRequests == 3
MaxLikeRequests == 3

\* ------------------------------------------------------ program constants
SignupGrant == 100
DefaultReward == 50

Users == {"u1", "u2"}
Jobs == 1..MaxJobs
Requests == 1..MaxRequests
\* rate_limit:{user or ip}:{path}
RateKeys == {"user:u1:/queue", "ip:10.0.0.1:/queue"}
\* RedisTokenStore.incr returned None
NoValue == 0
AuthRequests == 1..MaxAuthRequests
Emails == {"u1@example.com", "u2@example.com", "new@example.com"}
Usernames == {"user1", "user2", "newuser"}
\* Ids the store gives to the rows that signups insert.
NewUserIds == <<"n1", "n2", "n3">>
\* Credits u1 has already spent on earlier, finished jobs when the
\* observation starts: nothing, all but one job's worth, all but half a
\* job's worth.  u2 has just signed up.
PriorSpend == {0, 90, 95}

\* One project per user, mode "design", with a prompt row.
ProjectOf(u) == [id |-> u, user_id |-> u, mode |-> "design"]

\* A request that names no model (None or the empty string).
Unset == ""

\* available_models of create_job and queue_generation
available_models == {"nano_banana", "nano_banana_pro", "seedream",
                     "gemini_flash", "gemini_pro", "fal_flux"}

\* Model identifiers a request, a prompt row or a jobs row can carry: the
\* allow-list, one that no substring test matches, one that is not
\* allow-listed but matches a test, and one that matches two tests.
ModelIds == available_models \cup {"dalle", "bytedance_v2", "fal_seedream"}
RequestModels == ModelIds \cup {Unset}

\* calculate_job_credits: the cost table is configuration; the one entry
\* the specification gives is (std, design, nano_banana) -> 10.
calculate_job_credits(job_info) == 10

VARIABLES
    credits,          \* users.credits
    audit,            \* bag of audit rows
    jobs,             \* jobs table: job id -> row (status "absent": no row)
    renders,          \* renders table: set of <<job id, variant>>
    storage,          \* renders bucket: set of <<job id, variant>> paths
    scheduled,        \* jobs handed to BackgroundTasks by a sent response
    faults,           \* store calls that raised so far
    statusWrites,     \* history: values written to jobs.status, per job
    req_pc,           \* position of the request handler that inserts job j
    current_credits,  \* the handler's local current_credits
    req_model,        \* job_in.model of the request that inserted job j
    req_pref,         \* model_pref read from the prompt row (queue_generation)
    pc,               \* position of JobProcessor(j).process()
    user_credits,     \* local of _validate_and_deduct_credits / _refund_credits
    required_credits, \* self.required_credits
    project,          \* self.project is set
    error,            \* the exception caught by the top-level handler
    images,           \* number of images the provider returned
    i,                \* loop index of _save_results
    saved_count,      \* local of _save_results
    refunded_credits, \* local of _refund_credits
    provider,         \* provider family invoked ("none": none)
    ledger,           \* history: writes of this run to users.credits
    referral_uses,    \* referral_uses table: bag of <<code owner, referred user>>
    uses_count,       \* referral_codes.uses_count, per code owner
    ref_pc,           \* position of apply_referral_code, per calling user
    ref_user,         \* current_user["credits"], read by get_current_user
    ref_code_uses,    \* code_data["uses_count"]
    referrer_credits, \* local referrer_credits
    rl_counter,       \* Redis: value of the counter, per rate-limit key
    rl_ttl,           \* Redis: the key has an expiry set
    rl_window,        \* history: counters created so far, per key
    rl_pc,            \* position of RateLimiter.__call__, per request
    rl_key,           \* key of the request
    rl_current,       \* local current of __call__
    rl_in_window,     \* history: the window the request was counted in
    users_table,      \* users rows: id, email, username, password_hash set
    au_pc,            \* position of the auth handler, per request
    au_kind,          \* which handler the request is for
    au_payload,       \* the request body
    au_resp,          \* the response sent
    prompt_refs,      \* prompts.raw["refs"] of the job's project: asset ids
    ref_pos,          \* the reference loop: assets gone through
    ref_images,       \* the references downloaded, in order
    passed_refs,      \* the references the provider call was given
    payloads,         \* the image payloads the provider returned
    objects,          \* renders bucket: path and bytes of each object
    render_rows,      \* renders table: job_id, variant, thumbnail_path
    handed,           \* add_task calls made for the job
    email_confirmed,  \* users.email_confirmed: ids of the rows where it is set
    reset_tokens,     \* Redis keys reset_password:{token} and their user id
    confirm_tokens,   \* Redis keys confirm_email:{token} and their user id
    rc_pc,            \* position of the account recovery handler, per request
    rc_kind,          \* which handler the request is for
    rc_email,         \* the email of the request body
    rc_token,         \* the token of the request body
    rc_user_id,       \* the user id the handler read
    rc_resp,          \* the response sent: status and message
    likes_count,      \* projects.likes_count of the project
    project_likes,    \* project_likes rows of the project: user ids
    lk_pc,            \* position of the like or unlike handler, per request
    lk_kind,          \* which handler the request is for
    lk_user,          \* the caller
    lk_read,          \* project["likes_count"] as the handler read it
    lk_resp           \* the status of the response sent

storeVars == <<credits, audit, jobs, renders, storage, scheduled, statusWrites>>
\* A store call raises: at most MaxFaults of them do in one behaviour.
StoreRaises == faults < MaxFaults /\ faults' = faults + 1
StoreReturns == UNCHANGED faults
reqVars == <<req_pc, current_credits, req_model, req_pref>>
runVars == <<pc, user_credits, required_credits, project, error, images, i,
             saved_count, refunded_credits, provider, ledger>>
refVars == <<referral_uses, uses_count, ref_pc, ref_user, ref_code_uses,
             referrer_credits>>
rlVars == <<rl_counter, rl_ttl, rl_window, rl_pc, rl_key, rl_current,
            rl_in_window>>
\* State of the web layer outside the job pipeline and the referral handler.
authVars == <<users_table, au_pc, au_kind, au_payload, au_resp>>
\* References, payloads and stored bytes of the runs; the task hand-overs.
ioVars == <<prompt_refs, ref_pos, ref_images, passed_refs, payloads, objects,
            render_rows, handed>>
\* Account recovery (confirmation and reset tokens) and project likes.
recVars == <<email_confirmed, reset_tokens, confirm_tokens, rc_pc, rc_kind,
             rc_email, rc_token, rc_user_id, rc_resp>>
likeVars == <<likes_count, project_likes, lk_pc, lk_kind, lk_user, lk_read,
              lk_resp>>
siteVars == <<recVars, likeVars>>
webVars == <<rlVars, authVars, ioVars, siteVars>>
vars == <<storeVars, faults, reqVars, runVars, refVars, webVars>>

NoJob == [status |-> "absent", project_id |-> "none", model |-> "none",
          quality |-> "none", cost_credits |-> 0]

AuditRow(u, action, delta, j) ==
    [user_id |-> u, action |-> action, delta_credits |-> delta, job_id |-> j]

Owner(j) == jobs[j].project_id

\* --------------------------------------------------------------- Init
UserRow(id, email, username, has_hash) ==
    [id |-> id, email |-> email, username |-> username, password_hash |-> has_hash]

\* A body with the given keys; a key that is not in `keys` is not sent.
Response(status, keys, exists, next, user_id) ==
    [status |-> status, keys |-> keys, exists |-> exists, next |-> next,
     user_id |-> user_id]

NoResponse == Response(0, {}, FALSE, "none", "none")
NoPayload == [email |-> "none", username |-> "none", passwords_match |-> FALSE]

\* The users rows of u1 and u2; u1 has a password, and whether u2 has one
\* is drawn from `hashes`.
AuthInit(hashes) ==
    /\ \E h \in hashes :
         users_table = {UserRow("u1", "u1@example.com", "user1", TRUE),
                        UserRow("u2", "u2@example.com", "user2", h)}
    /\ au_pc = [r \in AuthRequests |-> "idle"]
    /\ au_kind = [r \in AuthRequests |-> "none"]
    /\ au_payload = [r \in AuthRequests |-> NoPayload]
    /\ au_resp = [r \in AuthRequests |-> NoResponse]

RecRequests == 1..MaxRecRequests
LikeRequests == 1..MaxLikeRequests
\* secrets.token_urlsafe(32) of each request: no two are equal.
NewTokens == <<"t1", "t2", "t3", "t4">>
Tokens == {NewTokens[r] : r \in RecRequests}

\* The body of a recovery response.
Message(status, message) == [status |-> status, message |-> message]

\* No token is in Redis; u1's email is confirmed, and whether u2's is, is
\* drawn from `confirmations`.
RecInit(confirmations) ==
    /\ \E c \in confirmations :
         email_confirmed = IF c THEN {"u1", "u2"} ELSE {"u1"}
    /\ reset_tokens = {}
    /\ confirm_tokens = {}
    /\ rc_pc = [r \in RecRequests |-> "idle"]
    /\ rc_kind = [r \in RecRequests |-> "none"]
    /\ rc_email = [r \in RecRequests |-> "none"]
    /\ rc_token = [r \in RecRequests |-> "none"]
    /\ rc_user_id = [r \in RecRequests |-> "none"]
    /\ rc_resp = [r \in RecRequests |-> Message(0, "none")]

\* A public project that nobody likes yet.
LikeInit ==
    /\ likes_count = 0
    /\ project_likes = EmptyBag
    /\ lk_pc = [r \in LikeRequests |-> "idle"]
    /\ lk_kind = [r \in LikeRequests |-> "none"]
    /\ lk_user = [r \in LikeRequests |-> "none"]
    /\ lk_read = [r \in LikeRequests |-> 0]
    /\ lk_resp = [r \in LikeRequests |-> 0]

\* Redis holds no counter and no request is in the rate limiter.
RateInit ==
    /\ rl_counter = [k \in RateKeys |-> 0]
    /\ rl_ttl = [k \in RateKeys |-> FALSE]
    /\ rl_window = [k \in RateKeys |-> 0]
    /\ rl_pc = [r \in Requests |-> "idle"]
    /\ rl_key = [r \in Requests |-> "none"]
    /\ rl_current = [r \in Requests |-> NoValue]
    /\ rl_in_window = [r \in Requests |-> 0]

\* The earlier jobs' deductions, as one audit row per user (job id 0).
PriorAudit(spent) ==
    LET rows == {AuditRow(u, "deduct_credits", -spent[u], 0) :
                    u \in {v \in Users : spent[v] > 0}}
    IN  SetToBag(rows)

\* The asset ids a prompt can name, and the lists of them.
AssetIds == <<"a1", "a2", "a3">>
RefLists == {SubSeq(AssetIds, 1, n) : n \in 0..MaxRefs}

\* file_name = f"renders/{self.job_id}_{i}.png"
FileName(job_id, index) == <<"renders", job_id, index>>

\* The characters of a text payload: 0..63 are the Base64 alphabet in
\* order (A-Z, a-z, 0-9, +, /), Pad is "=", Other any character outside it.
Pad == 64
Other == 65
\* "http" in that numbering: h = 33, t = 45, p = 41.
Http == <<33, 45, 45, 41>>

\* base64.b64encode of up to three bytes.
EncodeGroup(g) ==
    IF Len(g) = 3
    THEN <<g[1] \div 4, (g[1] % 4) * 16 + g[2] \div 16,
           (g[2] % 16) * 4 + g[3] \div 64, g[3] % 64>>
    ELSE IF Len(g) = 2
    THEN <<g[1] \div 4, (g[1] % 4) * 16 + g[2] \div 16, (g[2] % 16) * 4, Pad>>
    ELSE <<g[1] \div 4, (g[1] % 4) * 16, Pad, Pad>>

RECURSIVE B64Encode(_)
\* base64.b64encode(bytes)
B64Encode(b) ==
    IF Len(b) = 0 THEN <<>>
    ELSE IF Len(b) <= 3 THEN EncodeGroup(b)
    ELSE EncodeGroup(SubSeq(b, 1, 3)) \o B64Encode(SubSeq(b, 4, Len(b)))

\* base64.b64decode raises binascii.Error unless the text is whole groups
\* of four characters with padding at the end only.
B64Decodable(text) ==
    /\ Len(text) % 4 = 0
    /\ \A k \in 1..Len(text) :
         /\ text[k] <= Pad
         /\ text[k] = Pad =>
              /\ k >= Len(text) - 1
              /\ text[Len(text)] = Pad

\* The bytes of one group of four characters.
DecodeGroup(q) ==
    IF q[3] = Pad THEN <<q[1] * 4 + q[2] \div 16>>
    ELSE IF q[4] = Pad
    THEN <<q[1] * 4 + q[2] \div 16, (q[2] % 16) * 16 + q[3] \div 4>>
    ELSE <<q[1] * 4 + q[2] \div 16, (q[2] % 16) * 16 + q[3] \div 4,
           (q[3] % 4) * 64 + q[4]>>

\* The text written as it is.
B64Decode_AsIs(text) == text

RECURSIVE B64Decode(_)
\* base64.b64decode(text)
B64Decode(text) ==
    IF Len(text) = 0 THEN <<>>
    ELSE DecodeGroup(SubSeq(text, 1, 4)) \o B64Decode(SubSeq(text, 5, Len(text)))

\* img_data.startswith('http')
StartsWithHttp(text) == Len(text) >= 4 /\ SubSeq(text, 1, 4) = Http

\* The images a provider or a fetched URL can hold.
ImageBytes == {<<255>>, <<137, 80>>, <<134, 219, 105>>}

\* A payload that is the bytes themselves.
BytesPayload(b) == [kind |-> "bytes", data |-> b]

\* A payload that is the Base64 text of the bytes.
TextPayload(b) == [kind |-> "text", data |-> B64Encode(b)]

\* A payload that is a URL ("http:" and so on) or a text that cannot be
\* decoded.
UrlPayload == [kind |-> "text", data |-> Http \o <<Other>>]
BrokenPayload == [kind |-> "text", data |-> <<0>>]

\* Everything a provider may return for one image.
Payloads ==
    {BytesPayload(b) : b \in ImageBytes} \cup {TextPayload(b) : b \in ImageBytes}
        \cup {UrlPayload, BrokenPayload}

\* The img_bytes the loop body can arrive at: the response content of a
\* URL, the decoded text, or the bytes given.
ImgBytes(img_data) ==
    IF img_data.kind = "text" /\ StartsWithHttp(img_data.data)
    THEN IF \E k \in 1..Len(img_data.data) : img_data.data[k] = Other
         THEN ImageBytes ELSE {}
    ELSE IF img_data.kind = "text"
    THEN IF B64Decodable(img_data.data) THEN {B64Decode(img_data.data)} ELSE {}
    ELSE {img_data.data}

\* client.get or b64decode can raise for this payload.
ConversionRaises(img_data) ==
    /\ img_data.kind = "text"
    /\ StartsWithHttp(img_data.data) \/ ~B64Decodable(img_data.data)

\* What generate returns when the payload is not what is looked at.
DefaultPayloads == {BytesPayload(<<0>>)}

\* Runs not started: the prompts' references are given, nothing is stored.
IoInit(reflists, queued) ==
    /\ \E refs \in reflists :
        prompt_refs = [j \in Jobs |-> IF j \in queued THEN refs ELSE <<>>]
    /\ ref_pos = [j \in Jobs |-> 0]
    /\ ref_images = [j \in Jobs |-> <<>>]
    /\ passed_refs = [j \in Jobs |-> <<>>]
    /\ payloads = [j \in Jobs |-> <<>>]
    /\ objects = {}
    /\ render_rows = {}

\* The store and the handlers, apart from the users rows' identity columns.
PipelineInit ==
    /\ \E s \in PriorSpend :
        LET spent == [u \in Users |-> IF u = "u1" THEN s ELSE 0]
        IN  /\ credits = [u \in Users |-> SignupGrant - spent[u]]
            /\ audit = PriorAudit(spent)
    /\ jobs = [j \in Jobs |-> NoJob]
    /\ renders = {}
    /\ storage = {}
    /\ scheduled = {}
    /\ faults = 0
    /\ statusWrites = [j \in Jobs |-> <<>>]
    /\ req_pc = [j \in Jobs |-> "idle"]
    /\ current_credits = [j \in Jobs |-> 0]
    /\ req_model = [j \in Jobs |-> Unset]
    /\ req_pref = [j \in Jobs |-> Unset]
    /\ pc = [j \in Jobs |-> "idle"]
    /\ user_credits = [j \in Jobs |-> 0]
    /\ required_credits = [j \in Jobs |-> 0]
    /\ project = [j \in Jobs |-> FALSE]
    /\ error = [j \in Jobs |-> "none"]
    /\ images = [j \in Jobs |-> 0]
    /\ i = [j \in Jobs |-> 0]
    /\ saved_count = [j \in Jobs |-> 0]
    /\ refunded_credits = [j \in Jobs |-> 0]
    /\ provider = [j \in Jobs |-> "none"]
    /\ ledger = [j \in Jobs |-> <<>>]
    /\ referral_uses = EmptyBag
    /\ uses_count = [u \in Users |-> 0]
    /\ ref_pc = [u \in Users |-> "idle"]
    /\ ref_user = [u \in Users |-> 0]
    /\ ref_code_uses = [u \in Users |-> 0]
    /\ referrer_credits = [u \in Users |-> 0]
    /\ RateInit
    /\ IoInit({<<>>}, {})
    /\ handed = [j \in Jobs |-> 0]

Init == PipelineInit /\ AuthInit({TRUE}) /\ RecInit({TRUE}) /\ LikeInit

\* The same, with a users row of u2 that may have no password hash.
AuthStoreInit ==
    PipelineInit /\ AuthInit(BOOLEAN) /\ RecInit({TRUE}) /\ LikeInit

\* ------------------------------------------------- request handlers
\* The check both handlers make before inserting the job row.
HasCredits(balance, needed) == ~(balance < needed)

NewJobRow(u, model, quality, cost) ==
    [status |-> "queued", project_id |-> u, model |-> model,
     quality |-> quality, cost_credits |-> cost]

\* Job ids are handed out in order by the store.
NextJobId(j) ==
    /\ jobs[j].status = "absent"
    /\ \A k \in Jobs : k < j => jobs[k].status # "absent"

\* The allow-list test left out: the model is stored as it came.
ValidModel_Unchecked(model) == model

\* if model not in available_models: model = "nano_banana"
ValidModel(model) == IF model \in available_models THEN model ELSE "nano_banana"

\* create_job: model = job_in.model or "nano_banana", then the allow-list
JobModel(model_in) ==
    ValidModel(IF model_in = Unset THEN "nano_banana" ELSE model_in)

\* queue_generation: the request's model, else the prompt row's model_pref,
\* else "nano_banana", then the allow-list
QueueModel(model_in, model_pref) ==
    LET model == IF model_in # Unset THEN model_in ELSE model_pref
    IN  ValidModel(IF model = Unset THEN "nano_banana" ELSE model)

\* background_tasks.add_task(process_thumbnail_job_sync, job_id), made twice.
TasksAdded_Twice(n) == n + 2

\* background_tasks.add_task(process_thumbnail_job_sync, job_id)
TasksAdded(n) == n + 1

\* POST /jobs: reads the balance, inserts the row, schedules the run and
\* returns; it writes neither users.credits nor audit.
create_job(u, j, model_in) ==
    /\ NextJobId(j)
    /\ LET model == JobModel(model_in)
           cost == calculate_job_credits(
                     [quality |-> "std", mode |-> ProjectOf(u).mode,
                      model |-> model])
       IN  /\ HasCredits(credits[u], cost)
           /\ jobs' = [jobs EXCEPT ![j] = NewJobRow(u, model, "std", cost)]
           /\ current_credits' = [current_credits EXCEPT ![j] = credits[u]]
    /\ req_model' = [req_model EXCEPT ![j] = model_in]
    /\ UNCHANGED req_pref
    /\ statusWrites' = [statusWrites EXCEPT ![j] = <<"queued">>]
    /\ req_pc' = [req_pc EXCEPT ![j] = "returned"]
    /\ scheduled' = scheduled \cup {j}
    /\ handed' = [handed EXCEPT ![j] = TasksAdded(@)]
    /\ UNCHANGED <<rlVars, authVars, siteVars, prompt_refs, ref_pos, ref_images,
                   passed_refs, payloads, objects, render_rows, refVars,
                   credits, audit, renders, storage, faults, runVars>>

\* POST /projects/{id}/queue, up to the job insert and add_task.
queue_generation(u, j, model_in, model_pref) ==
    /\ NextJobId(j)
    /\ LET model == QueueModel(model_in, model_pref)
           cost == calculate_job_credits(
                     [quality |-> "std", mode |-> ProjectOf(u).mode,
                      model |-> model])
       IN  /\ HasCredits(credits[u], cost)
           /\ jobs' = [jobs EXCEPT ![j] = NewJobRow(u, model, "std", cost)]
           /\ current_credits' = [current_credits EXCEPT ![j] = credits[u]]
    /\ req_model' = [req_model EXCEPT ![j] = model_in]
    /\ req_pref' = [req_pref EXCEPT ![j] = model_pref]
    /\ statusWrites' = [statusWrites EXCEPT ![j] = <<"queued">>]
    /\ req_pc' = [req_pc EXCEPT ![j] = "update_credits"]
    /\ UNCHANGED <<webVars, refVars, credits, audit, renders, storage, scheduled, faults, runVars>>

\* users.update({"credits": current_credits - credits_needed})
queue_update_credits(j) ==
    /\ req_pc[j] = "update_credits"
    /\ \/ /\ StoreReturns
          /\ credits' = [credits EXCEPT
                           ![Owner(j)] = current_credits[j] - jobs[j].cost_credits]
          /\ req_pc' = [req_pc EXCEPT ![j] = "audit"]
       \/ /\ StoreRaises
          /\ req_pc' = [req_pc EXCEPT ![j] = "raised"]
          /\ UNCHANGED credits
    /\ UNCHANGED <<webVars, refVars, audit, jobs, renders, storage, scheduled, statusWrites,
                   current_credits, req_model, req_pref, runVars>>

\* audit.insert(job_queued) and the response; the background task runs
\* only for a response that was returned.
queue_audit(j) ==
    /\ req_pc[j] = "audit"
    /\ \/ /\ StoreReturns
          /\ audit' = audit (+) SetToBag({AuditRow(Owner(j), "job_queued",
                                                   -jobs[j].cost_credits, j)})
          /\ req_pc' = [req_pc EXCEPT ![j] = "returned"]
          /\ scheduled' = scheduled \cup {j}
          /\ handed' = [handed EXCEPT ![j] = TasksAdded(@)]
       \/ /\ StoreRaises
          /\ req_pc' = [req_pc EXCEPT ![j] = "raised"]
          /\ UNCHANGED <<audit, scheduled, handed>>
    /\ UNCHANGED <<rlVars, authVars, siteVars, prompt_refs, ref_pos, ref_images,
                   passed_refs, payloads, objects, render_rows, refVars,
                   credits, jobs, renders, storage, statusWrites,
                   current_credits, req_model, req_pref, runVars>>

\* --------------------------------------------------- JobProcessor
\* Every exception of the try block lands in the handler of process().
Raise(j, e) ==
    /\ pc' = [pc EXCEPT ![j] = "except"]
    /\ error' = [error EXCEPT ![j] = e]

\* _fetch_job, as the first step of process()
_fetch_job(j) ==
    /\ j \in scheduled
    /\ pc[j] = "idle"
    /\ \/ /\ StoreReturns
          /\ pc' = [pc EXCEPT ![j] = "set_running"]
          /\ UNCHANGED error
       \/ /\ StoreRaises
          /\ Raise(j, "StoreError")
    /\ UNCHANGED <<webVars, refVars, storeVars, reqVars, user_credits, required_credits, project,
                   images, i, saved_count, refunded_credits, provider, ledger>>

\* _update_job_status
WriteStatus(j, s) ==
    /\ jobs' = [jobs EXCEPT ![j].status = s]
    /\ statusWrites' = [statusWrites EXCEPT ![j] = Append(@, s)]

set_running(j) ==
    /\ pc[j] = "set_running"
    /\ \/ /\ StoreReturns
          /\ WriteStatus(j, "running")
          /\ pc' = [pc EXCEPT ![j] = "fetch_project"]
          /\ UNCHANGED error
       \/ /\ StoreRaises
          /\ Raise(j, "StoreError")
          /\ UNCHANGED <<jobs, statusWrites>>
    /\ UNCHANGED <<webVars, refVars, credits, audit, renders, storage, scheduled, reqVars,
                   user_credits, required_credits, project, images, i,
                   saved_count, refunded_credits, provider, ledger>>

\* _fetch_project_and_prompt: self.project is assigned only when both
\* reads returned.
_fetch_project_and_prompt(j) ==
    /\ pc[j] = "fetch_project"
    /\ \/ /\ StoreReturns
          /\ project' = [project EXCEPT ![j] = TRUE]
          /\ pc' = [pc EXCEPT ![j] = "read_credits"]
          /\ UNCHANGED error
       \/ /\ StoreRaises
          /\ Raise(j, "StoreError")
          /\ UNCHANGED project
    /\ UNCHANGED <<webVars, refVars, storeVars, reqVars, user_credits, required_credits, images,
                   i, saved_count, refunded_credits, provider, ledger>>

\* The check left out: every balance passes.
SufficientCredits_Unchecked(balance, required) == TRUE

\* _validate_and_deduct_credits: the check
SufficientCredits(balance, required) == ~(balance < required)

JobCost(j) ==
    calculate_job_credits([quality |-> jobs[j].quality,
                           mode |-> ProjectOf(Owner(j)).mode,
                           model |-> jobs[j].model])

\* _validate_and_deduct_credits: the read of users.credits and the check
validate_credits(j) ==
    /\ pc[j] = "read_credits"
    /\ \/ /\ StoreReturns
          /\ user_credits' = [user_credits EXCEPT ![j] = credits[Owner(j)]]
          /\ IF SufficientCredits(credits[Owner(j)], JobCost(j))
             THEN /\ pc' = [pc EXCEPT ![j] = "write_credits"]
                  /\ UNCHANGED error
             ELSE Raise(j, "InsufficientCredits")
       \/ /\ StoreRaises
          /\ Raise(j, "StoreError")
          /\ UNCHANGED user_credits
    /\ UNCHANGED <<webVars, refVars, storeVars, reqVars, required_credits, project, images, i,
                   saved_count, refunded_credits, provider, ledger>>

\* The decrement applied to the stored balance instead of the one read.
NewCredits_FromStore(j) == credits[Owner(j)] - JobCost(j)

\* new_credits = user_credits - required_credits
NewCredits(j) == user_credits[j] - JobCost(j)

\* _validate_and_deduct_credits: users.update({"credits": new_credits})
deduct_credits(j) ==
    /\ pc[j] = "write_credits"
    /\ \/ /\ StoreReturns
          /\ credits' = [credits EXCEPT
                           ![Owner(j)] = NewCredits(j)]
          /\ ledger' = [ledger EXCEPT ![j] = Append(@, <<"deduct", -JobCost(j)>>)]
          /\ pc' = [pc EXCEPT ![j] = "audit_deduct"]
          /\ UNCHANGED error
       \/ /\ StoreRaises
          /\ Raise(j, "StoreError")
          /\ UNCHANGED <<credits, ledger>>
    /\ UNCHANGED <<webVars, refVars, audit, jobs, renders, storage, scheduled, statusWrites,
                   reqVars, user_credits, required_credits, project, images, i,
                   saved_count, refunded_credits, provider>>

\* _validate_and_deduct_credits: audit.insert(deduct_credits) and the
\* return that sets self.required_credits
audit_deduct(j) ==
    /\ pc[j] = "audit_deduct"
    /\ \/ /\ StoreReturns
          /\ audit' = audit (+) SetToBag({AuditRow(Owner(j), "deduct_credits",
                                                   -JobCost(j), j)})
          /\ required_credits' = [required_credits EXCEPT ![j] = JobCost(j)]
          /\ pc' = [pc EXCEPT ![j] = IF prompt_refs[j] # <<>>
                                     THEN "download" ELSE "generate"]
          /\ UNCHANGED error
       \/ /\ StoreRaises
          /\ Raise(j, "StoreError")
          /\ UNCHANGED <<audit, required_credits>>
    /\ UNCHANGED <<webVars, refVars, credits, jobs, renders, storage, scheduled, statusWrites,
                   reqVars, user_credits, project, images, i, saved_count,
                   refunded_credits, provider, ledger>>

\* The words the substring tests of process() look for, per identifier.
Keywords(model) ==
    CASE model = "nano_banana" -> {"nano"}
      [] model = "nano_banana_pro" -> {"nano", "pro"}
      [] model = "seedream" -> {"seedream"}
      [] model = "gemini_flash" -> {"gemini"}
      [] model = "gemini_pro" -> {"gemini", "pro"}
      [] model = "fal_flux" -> {"fal"}
      [] model = "bytedance_v2" -> {"bytedance"}
      [] model = "fal_seedream" -> {"fal", "seedream"}
      [] OTHER -> {}

\* The chain with the fal test first.
ProviderFor_FalFirst(model) ==
    IF "fal" \in Keywords(model) THEN "fal"
    ELSE IF "gemini" \in Keywords(model) \/ "nano" \in Keywords(model) THEN "gemini"
    ELSE IF "seedream" \in Keywords(model) \/ "bytedance" \in Keywords(model)
         THEN "bytedance"
    ELSE "none"

\* The if / elif chain that picks the provider family.
ProviderFor(model) ==
    IF "gemini" \in Keywords(model) \/ "nano" \in Keywords(model) THEN "gemini"
    ELSE IF "seedream" \in Keywords(model) \/ "bytedance" \in Keywords(model)
         THEN "bytedance"
    ELSE IF "fal" \in Keywords(model) THEN "fal"
    ELSE "none"

\* The reference_images argument of the family's wrapper:
\* _generate_with_gemini takes ref_images, _generate_with_bytedance takes
\* ref_images_b64, _generate_with_fal has no such parameter.
ReferencesFor(family, refs) ==
    IF family \in {"gemini", "bytedance"} THEN refs ELSE <<>>

\* One iteration of _download_reference_images: the assets row is read
\* and the file downloaded; a missing row or a call that raises skips the
\* asset, and the loop goes on.
_download_reference_images(j) ==
    /\ pc[j] = "download"
    /\ LET asset_id == prompt_refs[j][ref_pos[j] + 1]
       IN  \/ /\ StoreReturns
              /\ ref_images' = [ref_images EXCEPT ![j] = Append(@, asset_id)]
           \/ /\ StoreReturns  \* asset_res.data is empty
              /\ UNCHANGED ref_images
           \/ /\ StoreRaises
              /\ UNCHANGED ref_images
    /\ ref_pos' = [ref_pos EXCEPT ![j] = @ + 1]
    /\ pc' = [pc EXCEPT ![j] = IF ref_pos[j] + 1 < Len(prompt_refs[j])
                               THEN "download" ELSE "generate"]
    /\ UNCHANGED <<rlVars, authVars, siteVars, prompt_refs, passed_refs, payloads,
                   objects, render_rows, handed, refVars, storeVars, reqVars,
                   user_credits, required_credits, project, error, images,
                   i, saved_count, refunded_credits, provider, ledger>>

\* Step 5 of process(): the provider call, given the references its
\* wrapper takes; it returns image payloads or raises, and an empty
\* result raises ThumbnailGenerationError.
generate(j, returned) ==
    /\ pc[j] = "generate"
    /\ provider' = [provider EXCEPT ![j] = ProviderFor(jobs[j].model)]
    /\ \/ \E n \in 1..MaxImages : \E ps \in [1..n -> returned] :
            /\ ProviderFor(jobs[j].model) # "none"
            /\ passed_refs' = [passed_refs EXCEPT ![j] =
                                 ReferencesFor(ProviderFor(jobs[j].model),
                                               ref_images[j])]
            /\ images' = [images EXCEPT ![j] = n]
            /\ payloads' = [payloads EXCEPT ![j] = ps]
            /\ pc' = [pc EXCEPT ![j] = "save"]
            /\ UNCHANGED error
       \/ /\ Raise(j, "NoImages")
          /\ passed_refs' = [passed_refs EXCEPT ![j] =
                               ReferencesFor(ProviderFor(jobs[j].model),
                                             ref_images[j])]
          /\ UNCHANGED <<images, payloads>>
       \/ /\ ProviderFor(jobs[j].model) # "none"
          /\ passed_refs' = [passed_refs EXCEPT ![j] =
                               ReferencesFor(ProviderFor(jobs[j].model),
                                             ref_images[j])]
          /\ Raise(j, "ProviderError")
          /\ UNCHANGED <<images, payloads>>
    /\ UNCHANGED <<rlVars, authVars, siteVars, prompt_refs, ref_pos, ref_images,
                   objects, render_rows, handed, refVars, storeVars, faults,
                   reqVars, user_credits, required_credits,
                   project, i, saved_count, refunded_credits, ledger>>

\* The loop left as soon as one image is saved.
AfterImage_FirstSaved(j, saved) ==
    /\ i' = [i EXCEPT ![j] = @ + 1]
    /\ saved_count' = [saved_count EXCEPT ![j] = saved]
    /\ IF saved > 0
       THEN /\ pc' = [pc EXCEPT ![j] = "set_succeeded"]
            /\ UNCHANGED error
       ELSE IF i[j] + 1 < images[j]
            THEN /\ pc' = pc
                 /\ UNCHANGED error
            ELSE Raise(j, "SaveFailed")

\* After image i of _save_results: the loop goes on, or process() checks
\* saved_count.
AfterImage(j, saved) ==
    /\ i' = [i EXCEPT ![j] = @ + 1]
    /\ saved_count' = [saved_count EXCEPT ![j] = saved]
    /\ IF i[j] + 1 < images[j]
       THEN /\ pc' = pc
            /\ UNCHANGED error
       ELSE IF saved = 0
            THEN Raise(j, "SaveFailed")
            ELSE /\ pc' = [pc EXCEPT ![j] = "set_succeeded"]
                 /\ UNCHANGED error

\* One iteration of _save_results: the payload is turned into bytes, the
\* bytes are uploaded, then renders.insert; each may raise, and the except
\* of the loop body swallows it.
_save_results(j) ==
    /\ pc[j] = "save"
    /\ LET img_data == payloads[j][i[j] + 1]
           file_name == FileName(j, i[j])
       IN  \/ \E img_bytes \in ImgBytes(img_data) :
                \/ /\ StoreReturns
                   /\ storage' = storage \cup {<<j, i[j]>>}
                   /\ objects' = objects \cup
                                   {[path |-> file_name, bytes |-> img_bytes]}
                   /\ renders' = renders \cup {<<j, i[j]>>}
                   /\ render_rows' = render_rows \cup
                                       {[job_id |-> j, variant |-> i[j],
                                         thumbnail_path |-> file_name]}
                   /\ AfterImage(j, saved_count[j] + 1)
                \/ /\ StoreRaises
                   /\ storage' = storage \cup {<<j, i[j]>>}
                   /\ objects' = objects \cup
                                   {[path |-> file_name, bytes |-> img_bytes]}
                   /\ UNCHANGED <<renders, render_rows>>
                   /\ AfterImage(j, saved_count[j])
           \/ /\ StoreRaises
              /\ UNCHANGED <<storage, objects, renders, render_rows>>
              /\ AfterImage(j, saved_count[j])
           \/ /\ ConversionRaises(img_data)
              /\ StoreReturns
              /\ UNCHANGED <<storage, objects, renders, render_rows>>
              /\ AfterImage(j, saved_count[j])
    /\ UNCHANGED <<rlVars, authVars, siteVars, prompt_refs, ref_pos, ref_images,
                   passed_refs, payloads, handed, refVars, credits, audit,
                   jobs, scheduled, statusWrites,
                   reqVars, user_credits, required_credits, project, images,
                   refunded_credits, provider, ledger>>

\* _update_job_status("succeeded", cost_credits=self.required_credits) and
\* the return of the summary
set_succeeded(j) ==
    /\ pc[j] = "set_succeeded"
    /\ \/ /\ StoreReturns
          /\ jobs' = [jobs EXCEPT ![j].status = "succeeded",
                                  ![j].cost_credits = required_credits[j]]
          /\ statusWrites' = [statusWrites EXCEPT ![j] = Append(@, "succeeded")]
          /\ pc' = [pc EXCEPT ![j] = "returned"]
          /\ UNCHANGED error
       \/ /\ StoreRaises
          /\ Raise(j, "StoreError")
          /\ UNCHANGED <<jobs, statusWrites>>
    /\ UNCHANGED <<webVars, refVars, credits, audit, renders, storage, scheduled, reqVars,
                   user_credits, required_credits, project, images, i,
                   saved_count, refunded_credits, provider, ledger>>

\* The refund guarded by self.project alone.
NeedsRefund_ProjectOnly(required, has_project) == has_project

\* The test that guards the refund in the handler.
NeedsRefund(required, has_project) == required > 0 /\ has_project

\* except Exception: _update_job_status("failed"); when that call raises,
\* the exception leaves process().
set_failed(j) ==
    /\ pc[j] = "except"
    /\ \/ /\ StoreReturns
          /\ WriteStatus(j, "failed")
          /\ pc' = [pc EXCEPT ![j] =
                      IF NeedsRefund(required_credits[j], project[j])
                      THEN "refund_read" ELSE "returned"]
       \/ /\ StoreRaises
          /\ pc' = [pc EXCEPT ![j] = "raised"]
          /\ UNCHANGED <<jobs, statusWrites>>
    /\ UNCHANGED <<webVars, refVars, credits, audit, renders, storage, scheduled, reqVars,
                   user_credits, required_credits, project, error, images, i,
                   saved_count, refunded_credits, provider, ledger>>

\* The except of _refund_credits re-raising what it caught.
RefundExcept_Reraised == "raised"

\* The except of _refund_credits logs the exception; the handler of
\* process() goes on to return its summary.
RefundExcept == "returned"

\* _refund_credits: the read; its own except swallows every exception.
refund_read(j) ==
    /\ pc[j] = "refund_read"
    /\ \/ /\ StoreReturns
          /\ refunded_credits' = [refunded_credits EXCEPT
                                    ![j] = credits[Owner(j)] + required_credits[j]]
          /\ pc' = [pc EXCEPT ![j] = "refund_write"]
       \/ /\ StoreRaises
          /\ pc' = [pc EXCEPT ![j] = RefundExcept]
          /\ UNCHANGED refunded_credits
    /\ UNCHANGED <<webVars, refVars, storeVars, reqVars, user_credits, required_credits, project,
                   error, images, i, saved_count, provider, ledger>>

\* _refund_credits: users.update({"credits": refunded_credits})
refund_write(j) ==
    /\ pc[j] = "refund_write"
    /\ \/ /\ StoreReturns
          /\ credits' = [credits EXCEPT ![Owner(j)] = refunded_credits[j]]
          /\ ledger' = [ledger EXCEPT
                          ![j] = Append(@, <<"refund", required_credits[j]>>)]
          /\ pc' = [pc EXCEPT ![j] = "refund_audit"]
       \/ /\ StoreRaises
          /\ pc' = [pc EXCEPT ![j] = RefundExcept]
          /\ UNCHANGED <<credits, ledger>>
    /\ UNCHANGED <<webVars, refVars, audit, jobs, renders, storage, scheduled, statusWrites,
                   reqVars, user_credits, required_credits, project, error,
                   images, i, saved_count, refunded_credits, provider>>

\* _refund_credits: audit.insert(refund_credits)
refund_audit(j) ==
    /\ pc[j] = "refund_audit"
    /\ \/ /\ StoreReturns
          /\ audit' = audit (+) SetToBag({AuditRow(Owner(j), "refund_credits",
                                                   required_credits[j], j)})
          /\ pc' = [pc EXCEPT ![j] = "returned"]
       \/ /\ StoreRaises
          /\ UNCHANGED audit
          /\ pc' = [pc EXCEPT ![j] = RefundExcept]
    /\ UNCHANGED <<webVars, refVars, credits, jobs, renders, storage, scheduled, statusWrites,
                   reqVars, user_credits, required_credits, project, error,
                   images, i, saved_count, refunded_credits, provider, ledger>>

\* ------------------------------------------- apply_referral_code
\* Every user owns one referral code (max_uses unset, reward_credits 50);
\* with two users, the code a user can apply is the other user's.
CodeOwnerFor(u) == CHOOSE c \in Users : c # u

\* reward_credits = code_data.get("reward_credits", 50)
RewardCredits(c) == DefaultReward

\* The request is over: its locals are gone.
RefEnds(u) ==
    /\ ref_pc' = [ref_pc EXCEPT ![u] = "idle"]
    /\ ref_user' = [ref_user EXCEPT ![u] = 0]
    /\ ref_code_uses' = [ref_code_uses EXCEPT ![u] = 0]
    /\ referrer_credits' = [referrer_credits EXCEPT ![u] = 0]

\* A store call of apply_referral_code raises: the handler answers 500.
RefRaises(u) == StoreRaises /\ RefEnds(u)

\* The call returned and the handler goes on to its next store call.
RefGoes(u, next) ==
    /\ StoreReturns
    /\ ref_pc' = [ref_pc EXCEPT ![u] = next]
    /\ UNCHANGED <<ref_user, ref_code_uses>>

\* get_current_user, the referral_codes read, and the own-code and
\* max_uses checks (max_uses is unset on every code the backend creates).
referral_start(u) ==
    /\ ref_pc[u] = "idle"
    /\ CodeOwnerFor(u) # u
    /\ ref_user' = [ref_user EXCEPT ![u] = credits[u]]
    /\ ref_code_uses' = [ref_code_uses EXCEPT ![u] = uses_count[CodeOwnerFor(u)]]
    /\ ref_pc' = [ref_pc EXCEPT ![u] = "check_use"]
    /\ UNCHANGED <<storeVars, faults, webVars, reqVars, runVars, referral_uses,
                   uses_count, referrer_credits>>

\* The read of referral_uses: a user who has a row is answered 400.
referral_check_use(u) ==
    /\ ref_pc[u] = "check_use"
    /\ IF \E c \in Users : BagIn(<<c, u>>, referral_uses)
       THEN RefEnds(u)
       ELSE /\ ref_pc' = [ref_pc EXCEPT ![u] = "insert_use"]
            /\ UNCHANGED <<ref_user, ref_code_uses, referrer_credits>>
    /\ UNCHANGED <<storeVars, faults, webVars, reqVars, runVars, referral_uses,
                   uses_count>>

\* referral_uses.insert
referral_insert_use(u) ==
    /\ ref_pc[u] = "insert_use"
    /\ \/ /\ RefGoes(u, "update_count")
          /\ referral_uses' = referral_uses (+) SetToBag({<<CodeOwnerFor(u), u>>})
          /\ UNCHANGED referrer_credits
       \/ /\ RefRaises(u)
          /\ UNCHANGED referral_uses
    /\ UNCHANGED <<storeVars, webVars, reqVars, runVars, uses_count>>

\* referral_codes.update({"uses_count": code_data uses_count + 1})
referral_update_count(u) ==
    /\ ref_pc[u] = "update_count"
    /\ \/ /\ RefGoes(u, "credit_referred")
          /\ uses_count' = [uses_count EXCEPT
                              ![CodeOwnerFor(u)] = ref_code_uses[u] + 1]
          /\ UNCHANGED referrer_credits
       \/ /\ RefRaises(u)
          /\ UNCHANGED uses_count
    /\ UNCHANGED <<storeVars, webVars, reqVars, runVars, referral_uses>>

\* users.update({"credits": current_user credits + reward_credits})
referral_credit_referred(u) ==
    /\ ref_pc[u] = "credit_referred"
    /\ \/ /\ RefGoes(u, "read_referrer")
          /\ credits' = [credits EXCEPT
                           ![u] = ref_user[u] + RewardCredits(CodeOwnerFor(u))]
          /\ UNCHANGED referrer_credits
       \/ /\ RefRaises(u)
          /\ UNCHANGED credits
    /\ UNCHANGED <<audit, jobs, renders, storage, scheduled, statusWrites,
                   webVars, reqVars, runVars, referral_uses, uses_count>>

\* The read of the referrer's credits
referral_read_referrer(u) ==
    /\ ref_pc[u] = "read_referrer"
    /\ \/ /\ RefGoes(u, "credit_referrer")
          /\ referrer_credits' = [referrer_credits EXCEPT
                                    ![u] = credits[CodeOwnerFor(u)]]
       \/ RefRaises(u)
    /\ UNCHANGED <<storeVars, webVars, reqVars, runVars, referral_uses, uses_count>>

\* users.update({"credits": referrer_credits + reward_credits})
referral_credit_referrer(u) ==
    /\ ref_pc[u] = "credit_referrer"
    /\ \/ /\ RefGoes(u, "audit")
          /\ credits' = [credits EXCEPT
                           ![CodeOwnerFor(u)] =
                               referrer_credits[u] + RewardCredits(CodeOwnerFor(u))]
          /\ UNCHANGED referrer_credits
       \/ /\ RefRaises(u)
          /\ UNCHANGED credits
    /\ UNCHANGED <<audit, jobs, renders, storage, scheduled, statusWrites,
                   webVars, reqVars, runVars, referral_uses, uses_count>>

\* audit.insert(referral_applied), for the referred user only, and the
\* response
referral_audit(u) ==
    /\ ref_pc[u] = "audit"
    /\ \/ /\ StoreReturns
          /\ RefEnds(u)
          /\ audit' = audit (+) SetToBag({AuditRow(u, "referral_applied",
                                                   RewardCredits(CodeOwnerFor(u)), 0)})
       \/ /\ RefRaises(u)
          /\ UNCHANGED audit
    /\ UNCHANGED <<credits, jobs, renders, storage, scheduled, statusWrites,
                   webVars, reqVars, runVars, referral_uses, uses_count>>

\* --------------------------------------------------- RateLimiter
pipelineVars == <<storeVars, reqVars, runVars, refVars, ioVars>>

\* The limit test replaced by one that lets one more request through.
RateExceeded_OffByOne(current) == current > Times + 1

\* if current > self.times
RateExceeded(current) == current > Times

\* The failure of the increment answered with 429.
OnIncrFailure_Closed == "rejected"

\* if current is None: return (and the except Exception of __call__)
OnIncrFailure == "admitted"

\* The limit test and what follows it: 429, or the request goes on.
Decision(current) == IF RateExceeded(current) THEN "rejected" ELSE "admitted"

\* _get_rate_limit_key and redis.incr(key): INCR is one Redis command; a
\* key that does not exist is created with value 1.  When the call fails,
\* incr returns None and the request is let through.  A value other than
\* 1 goes straight to the limit test.
rl_incr(r, k) ==
    /\ rl_pc[r] = "idle"
    /\ rl_key' = [rl_key EXCEPT ![r] = k]
    /\ \/ /\ StoreReturns
          /\ rl_counter' = [rl_counter EXCEPT ![k] = @ + 1]
          /\ rl_current' = [rl_current EXCEPT ![r] = rl_counter[k] + 1]
          /\ rl_window' = [rl_window EXCEPT
                             ![k] = IF rl_counter[k] = 0 THEN @ + 1 ELSE @]
          /\ rl_in_window' = [rl_in_window EXCEPT ![r] = rl_window'[k]]
          /\ rl_pc' = [rl_pc EXCEPT
                         ![r] = IF rl_counter[k] + 1 = 1
                                THEN "expire"
                                ELSE Decision(rl_counter[k] + 1)]
       \/ /\ StoreRaises
          /\ rl_current' = [rl_current EXCEPT ![r] = NoValue]
          /\ rl_pc' = [rl_pc EXCEPT ![r] = OnIncrFailure]
          /\ UNCHANGED <<rl_counter, rl_window, rl_in_window>>
    /\ UNCHANGED <<pipelineVars, siteVars, authVars, rl_ttl>>

\* redis.expire(key, self.seconds) by the request that read 1, then the
\* limit test; a failing expire returns False, which __call__ ignores.
rl_expire(r) ==
    /\ rl_pc[r] = "expire"
    /\ \/ /\ StoreReturns
          /\ rl_ttl' = [rl_ttl EXCEPT ![rl_key[r]] = rl_counter[rl_key[r]] > 0]
       \/ /\ StoreRaises
          /\ UNCHANGED rl_ttl
    /\ rl_pc' = [rl_pc EXCEPT ![r] = Decision(rl_current[r])]
    /\ UNCHANGED <<pipelineVars, siteVars, authVars, rl_counter, rl_window, rl_key,
                   rl_current, rl_in_window>>

\* Redis drops a key whose expiry has passed.
rl_key_expires(k) ==
    /\ rl_ttl[k]
    /\ rl_counter' = [rl_counter EXCEPT ![k] = 0]
    /\ rl_ttl' = [rl_ttl EXCEPT ![k] = FALSE]
    /\ UNCHANGED <<pipelineVars, siteVars, authVars, faults, rl_window, rl_pc, rl_key,
                   rl_current, rl_in_window>>

RateNext ==
    \/ \E r \in Requests, k \in RateKeys : rl_incr(r, k)
    \/ \E r \in Requests : rl_expire(r)
    \/ \E k \in RateKeys : rl_key_expires(k)

RateSpec == Init /\ [][RateNext]_vars

\* ----------------------------------------------------------- auth
\* An exception that no handler catches: the framework answers 500.
ServerError == Response(500, {"detail"}, FALSE, "none", "none")

\* auth_start answering create_account whatever it read.
StartResponse_AlwaysNew(rows) ==
    Response(200, {"exists", "next"}, FALSE, "create_account", "none")

\* auth_start: the answer for the rows the select returned
StartResponse(rows) ==
    IF rows # {}
    THEN LET user == CHOOSE x \in rows : TRUE
         IN  IF user.password_hash
             THEN Response(200, {"exists", "next"}, TRUE, "password", "none")
             ELSE Response(200, {"exists", "next"}, TRUE, "social_login", "none")
    ELSE Response(200, {"exists", "next"}, FALSE, "create_account", "none")

\* POST /auth/start: one select on users by email
auth_start(r, email) ==
    /\ au_pc[r] = "idle"
    /\ au_kind' = [au_kind EXCEPT ![r] = "start"]
    /\ au_payload' = [au_payload EXCEPT ![r] = [NoPayload EXCEPT !.email = email]]
    /\ \/ /\ StoreReturns
          /\ au_resp' = [au_resp EXCEPT
                           ![r] = StartResponse({x \in users_table : x.email = email})]
       \/ /\ StoreRaises
          /\ au_resp' = [au_resp EXCEPT ![r] = ServerError]
    /\ au_pc' = [au_pc EXCEPT ![r] = "done"]
    /\ UNCHANGED <<pipelineVars, siteVars, rlVars, users_table>>

\* The value of "next" in the body of a successful signup.
SignupNext == "dashboard"

\* The body of a successful signup.
SignupResponse(id) ==
    Response(201, {"user_id", "access_token", "token_type", "user", "next"},
             FALSE, SignupNext, id)

\* POST /auth/signup: the password comparison and the username select
signup(r, email, username, passwords_match) ==
    /\ au_pc[r] = "idle"
    /\ au_kind' = [au_kind EXCEPT ![r] = "signup"]
    /\ au_payload' = [au_payload EXCEPT
                        ![r] = [email |-> email, username |-> username,
                                passwords_match |-> passwords_match]]
    /\ IF ~passwords_match
       THEN /\ au_resp' = [au_resp EXCEPT
                             ![r] = Response(400, {"detail"}, FALSE, "none", "none")]
            /\ au_pc' = [au_pc EXCEPT ![r] = "done"]
            /\ UNCHANGED faults
       ELSE \/ /\ StoreReturns
               /\ IF \E x \in users_table : x.username = username
                  THEN /\ au_resp' = [au_resp EXCEPT
                                        ![r] = Response(409, {"detail"}, FALSE,
                                                        "none", "none")]
                       /\ au_pc' = [au_pc EXCEPT ![r] = "done"]
                  ELSE /\ au_pc' = [au_pc EXCEPT ![r] = "insert_user"]
                       /\ UNCHANGED au_resp
            \/ /\ StoreRaises
               /\ au_resp' = [au_resp EXCEPT ![r] = ServerError]
               /\ au_pc' = [au_pc EXCEPT ![r] = "done"]
    /\ UNCHANGED <<pipelineVars, siteVars, rlVars, users_table>>

\* users.insert(user_data); users.email is taken to be unique in the
\* store, so the insert of a second row for an email raises.  Every
\* exception of the try block is answered 500.
signup_insert_user(r) ==
    /\ au_pc[r] = "insert_user"
    /\ \/ /\ StoreReturns
          /\ IF \E x \in users_table : x.email = au_payload[r].email
             THEN /\ au_resp' = [au_resp EXCEPT ![r] = ServerError]
                  /\ au_pc' = [au_pc EXCEPT ![r] = "done"]
                  /\ UNCHANGED users_table
             ELSE /\ users_table' = users_table \cup
                        {UserRow(NewUserIds[r], au_payload[r].email,
                                 au_payload[r].username, TRUE)}
                  /\ au_pc' = [au_pc EXCEPT ![r] = "insert_audit"]
                  /\ UNCHANGED au_resp
       \/ /\ StoreRaises
          /\ au_resp' = [au_resp EXCEPT ![r] = ServerError]
          /\ au_pc' = [au_pc EXCEPT ![r] = "done"]
          /\ UNCHANGED users_table
    /\ email_confirmed' = email_confirmed \cup
                             ({x.id : x \in users_table'} \ {x.id : x \in users_table})
    /\ UNCHANGED <<pipelineVars, likeVars, reset_tokens, confirm_tokens, rc_pc,
                   rc_kind, rc_email, rc_token, rc_user_id, rc_resp, rlVars,
                   au_kind, au_payload>>

\* audit.insert(user_signup), create_access_token and the response
signup_insert_audit(r) ==
    /\ au_pc[r] = "insert_audit"
    /\ \/ /\ StoreReturns
          /\ audit' = audit (+) SetToBag({AuditRow(NewUserIds[r], "user_signup", 0, 0)})
          /\ au_resp' = [au_resp EXCEPT ![r] = SignupResponse(NewUserIds[r])]
       \/ /\ StoreRaises
          /\ au_resp' = [au_resp EXCEPT ![r] = ServerError]
          /\ UNCHANGED audit
    /\ au_pc' = [au_pc EXCEPT ![r] = "done"]
    /\ UNCHANGED <<credits, jobs, renders, storage, scheduled, statusWrites,
                   reqVars, runVars, refVars, ioVars, siteVars, rlVars,
                   users_table, au_kind, au_payload>>

AuthNext ==
    \/ \E r \in AuthRequests, e \in Emails : auth_start(r, e)
    \/ \E r \in AuthRequests, e \in Emails, n \in Usernames, m \in BOOLEAN :
          signup(r, e, n, m)
    \/ \E r \in AuthRequests : signup_insert_user(r)
    \/ \E r \in AuthRequests : signup_insert_audit(r)

AuthSpec == AuthStoreInit /\ [][AuthNext]_vars

\* ------------------------------------------------ account recovery
\* The message both recovery handlers send for an email they know nothing
\* of, and the other messages.
ConfirmationSent == "If account exists, confirmation email sent"
AlreadyConfirmed == "Email already confirmed"
ResetSent == "If account exists, reset instructions sent"

\* resend_confirmation: the body for the rows the select returned
ResendResponse(rows, confirmed) ==
    IF rows = {} THEN Message(200, ConfirmationSent)
    ELSE IF (CHOOSE x \in rows : TRUE).id \in confirmed
    THEN Message(200, AlreadyConfirmed)
    ELSE Message(200, ConfirmationSent)

\* forgot_password: the body, whatever the select returned
ForgotResponse(rows) == Message(200, ResetSent)

\* The request is answered.
RecAnswers(r, resp) ==
    /\ rc_resp' = [rc_resp EXCEPT ![r] = resp]
    /\ rc_pc' = [rc_pc EXCEPT ![r] = "done"]

\* POST /auth/resend-confirmation: the select on users by email; a row
\* that is not confirmed goes on to the token.
resend_confirmation(r, email) ==
    /\ rc_pc[r] = "idle"
    /\ rc_kind' = [rc_kind EXCEPT ![r] = "resend"]
    /\ rc_email' = [rc_email EXCEPT ![r] = email]
    /\ LET rows == {x \in users_table : x.email = email}
       IN  \/ /\ StoreReturns
              /\ IF rows # {} /\ (CHOOSE x \in rows : TRUE).id \notin email_confirmed
                 THEN /\ rc_user_id' = [rc_user_id EXCEPT
                                          ![r] = (CHOOSE x \in rows : TRUE).id]
                      /\ rc_pc' = [rc_pc EXCEPT ![r] = "setex_confirm"]
                      /\ UNCHANGED rc_resp
                 ELSE /\ RecAnswers(r, ResendResponse(rows, email_confirmed))
                      /\ UNCHANGED rc_user_id
           \/ /\ StoreRaises
              /\ RecAnswers(r, Message(500, "Internal Server Error"))
              /\ UNCHANGED rc_user_id
    /\ UNCHANGED <<pipelineVars, rlVars, authVars, likeVars, email_confirmed,
                   reset_tokens, confirm_tokens, rc_token>>

\* redis.setex("confirm_email:{token}", 600, user id), whose failure is
\* swallowed, and the response
resend_setex(r) ==
    /\ rc_pc[r] = "setex_confirm"
    /\ \/ /\ StoreReturns
          /\ confirm_tokens' = confirm_tokens \cup
                 {[token |-> NewTokens[r], user_id |-> rc_user_id[r]]}
       \/ /\ StoreRaises
          /\ UNCHANGED confirm_tokens
    /\ RecAnswers(r, Message(200, ConfirmationSent))
    /\ UNCHANGED <<pipelineVars, rlVars, authVars, likeVars, email_confirmed,
                   reset_tokens, rc_kind, rc_email, rc_token, rc_user_id>>

\* POST /auth/forgot-password: the select on users by email
forgot_password(r, email) ==
    /\ rc_pc[r] = "idle"
    /\ rc_kind' = [rc_kind EXCEPT ![r] = "forgot"]
    /\ rc_email' = [rc_email EXCEPT ![r] = email]
    /\ LET rows == {x \in users_table : x.email = email}
       IN  \/ /\ StoreReturns
              /\ IF rows # {}
                 THEN /\ rc_user_id' = [rc_user_id EXCEPT
                                          ![r] = (CHOOSE x \in rows : TRUE).id]
                      /\ rc_pc' = [rc_pc EXCEPT ![r] = "setex_reset"]
                      /\ UNCHANGED rc_resp
                 ELSE /\ RecAnswers(r, ForgotResponse(rows))
                      /\ UNCHANGED rc_user_id
           \/ /\ StoreRaises
              /\ RecAnswers(r, Message(500, "Internal Server Error"))
              /\ UNCHANGED rc_user_id
    /\ UNCHANGED <<pipelineVars, rlVars, authVars, likeVars, email_confirmed,
                   reset_tokens, confirm_tokens, rc_token>>

\* redis.setex("reset_password:{token}", 600, user id), whose failure is
\* swallowed, and the response
forgot_setex(r) ==
    /\ rc_pc[r] = "setex_reset"
    /\ \/ /\ StoreReturns
          /\ reset_tokens' = reset_tokens \cup
                 {[token |-> NewTokens[r], user_id |-> rc_user_id[r]]}
       \/ /\ StoreRaises
          /\ UNCHANGED reset_tokens
    /\ RecAnswers(r, ForgotResponse({rc_user_id[r]}))
    /\ UNCHANGED <<pipelineVars, rlVars, authVars, likeVars, email_confirmed,
                   confirm_tokens, rc_kind, rc_email, rc_token, rc_user_id>>

\* POST /auth/reset-password: the password comparison and redis.get, which
\* returns None when the key is absent or the call fails
reset_password(r, token, passwords_match) ==
    /\ rc_pc[r] = "idle"
    /\ rc_kind' = [rc_kind EXCEPT ![r] = "reset"]
    /\ rc_token' = [rc_token EXCEPT ![r] = token]
    /\ IF ~passwords_match
       THEN /\ RecAnswers(r, Message(400, "Passwords do not match"))
            /\ UNCHANGED <<faults, rc_user_id>>
       ELSE \/ /\ StoreReturns
               /\ IF \E e \in reset_tokens : e.token = token
                  THEN /\ rc_user_id' = [rc_user_id EXCEPT ![r] =
                              (CHOOSE e \in reset_tokens : e.token = token).user_id]
                       /\ rc_pc' = [rc_pc EXCEPT ![r] = "update"]
                       /\ UNCHANGED rc_resp
                  ELSE /\ RecAnswers(r, Message(400, "Invalid or expired token"))
                       /\ UNCHANGED rc_user_id
            \/ /\ StoreRaises
               /\ RecAnswers(r, Message(400, "Invalid or expired token"))
               /\ UNCHANGED rc_user_id
    /\ UNCHANGED <<pipelineVars, rlVars, authVars, likeVars, email_confirmed,
                   reset_tokens, confirm_tokens, rc_email>>

\* users.update({"password_hash": hashed_password}).eq("id", user_id)
reset_update(r) ==
    /\ rc_pc[r] = "update"
    /\ \/ /\ StoreReturns
          /\ users_table' = {IF x.id = rc_user_id[r]
                             THEN [x EXCEPT !.password_hash = TRUE] ELSE x :
                                x \in users_table}
          /\ rc_pc' = [rc_pc EXCEPT ![r] = "audit"]
          /\ UNCHANGED rc_resp
       \/ /\ StoreRaises
          /\ RecAnswers(r, Message(500, "Internal Server Error"))
          /\ UNCHANGED users_table
    /\ UNCHANGED <<pipelineVars, rlVars, likeVars, au_pc, au_kind, au_payload,
                   au_resp, email_confirmed, reset_tokens, confirm_tokens,
                   rc_kind, rc_email, rc_token, rc_user_id>>

\* audit.insert(password_reset)
reset_audit(r) ==
    /\ rc_pc[r] = "audit"
    /\ \/ /\ StoreReturns
          /\ audit' = audit (+) SetToBag({AuditRow(rc_user_id[r],
                                                   "password_reset", 0, 0)})
          /\ rc_pc' = [rc_pc EXCEPT ![r] = "delete"]
          /\ UNCHANGED rc_resp
       \/ /\ StoreRaises
          /\ RecAnswers(r, Message(500, "Internal Server Error"))
          /\ UNCHANGED audit
    /\ UNCHANGED <<credits, jobs, renders, storage, scheduled, statusWrites,
                   reqVars, runVars, refVars, ioVars, rlVars, authVars,
                   likeVars, email_confirmed, reset_tokens, confirm_tokens,
                   rc_kind, rc_email, rc_token, rc_user_id>>

\* redis.delete("reset_password:{token}"), whose failure is swallowed, and
\* the response
reset_delete(r) ==
    /\ rc_pc[r] = "delete"
    /\ \/ /\ StoreReturns
          /\ reset_tokens' = {e \in reset_tokens : e.token # rc_token[r]}
       \/ /\ StoreRaises
          /\ UNCHANGED reset_tokens
    /\ RecAnswers(r, Message(200, "Password reset successfully"))
    /\ UNCHANGED <<pipelineVars, rlVars, authVars, likeVars, email_confirmed,
                   confirm_tokens, rc_kind, rc_email, rc_token, rc_user_id>>

\* Redis drops a reset token 600 seconds after it was stored.
reset_token_expires(t) ==
    /\ \E e \in reset_tokens : e.token = t
    /\ reset_tokens' = {e \in reset_tokens : e.token # t}
    /\ UNCHANGED <<pipelineVars, faults, rlVars, authVars, likeVars,
                   email_confirmed, confirm_tokens, rc_pc, rc_kind, rc_email,
                   rc_token, rc_user_id, rc_resp>>

RecoveryInit == PipelineInit /\ AuthInit({TRUE}) /\ RecInit(BOOLEAN) /\ LikeInit

RecoveryNext ==
    \/ \E r \in RecRequests, e \in Emails : resend_confirmation(r, e)
    \/ \E r \in RecRequests : resend_setex(r)
    \/ \E r \in RecRequests, e \in Emails : forgot_password(r, e)
    \/ \E r \in RecRequests : forgot_setex(r)
    \/ \E r \in RecRequests, t \in Tokens, m \in BOOLEAN : reset_password(r, t, m)
    \/ \E r \in RecRequests : reset_update(r)
    \/ \E r \in RecRequests : reset_audit(r)
    \/ \E r \in RecRequests : reset_delete(r)
    \/ \E t \in Tokens : reset_token_expires(t)

RecoverySpec == RecoveryInit /\ [][RecoveryNext]_vars

\* --------------------------------------------------- project likes
\* The request is answered.
LikeAnswers(r, status) ==
    /\ lk_resp' = [lk_resp EXCEPT ![r] = status]
    /\ lk_pc' = [lk_pc EXCEPT ![r] = "done"]

\* A store call of the handler raises: except Exception answers 500.
LikeRaises(r) == StoreRaises /\ LikeAnswers(r, 500)

\* The call returned and the handler goes on to its next store call.
LikeGoes(r, next) ==
    /\ StoreReturns
    /\ lk_pc' = [lk_pc EXCEPT ![r] = next]
    /\ UNCHANGED lk_resp

\* POST /projects/{id}/like: the select of the project row, which is
\* public, with its likes_count
like_project(r, u) ==
    /\ lk_pc[r] = "idle"
    /\ lk_kind' = [lk_kind EXCEPT ![r] = "like"]
    /\ lk_user' = [lk_user EXCEPT ![r] = u]
    /\ \/ /\ LikeGoes(r, "check")
          /\ lk_read' = [lk_read EXCEPT ![r] = likes_count]
       \/ /\ LikeRaises(r)
          /\ UNCHANGED lk_read
    /\ UNCHANGED <<pipelineVars, rlVars, authVars, recVars, likes_count,
                   project_likes>>

\* The select on project_likes: a caller who has a row is answered 400.
like_check(r) ==
    /\ lk_pc[r] = "check"
    /\ \/ /\ StoreReturns
          /\ IF BagIn(lk_user[r], project_likes)
             THEN LikeAnswers(r, 400)
             ELSE /\ lk_pc' = [lk_pc EXCEPT ![r] = "insert"]
                  /\ UNCHANGED lk_resp
       \/ LikeRaises(r)
    /\ UNCHANGED <<pipelineVars, rlVars, authVars, recVars, likes_count,
                   project_likes, lk_kind, lk_user, lk_read>>

\* project_likes.insert
like_insert(r) ==
    /\ lk_pc[r] = "insert"
    /\ \/ /\ LikeGoes(r, "update")
          /\ project_likes' = project_likes (+) SetToBag({lk_user[r]})
       \/ /\ LikeRaises(r)
          /\ UNCHANGED project_likes
    /\ UNCHANGED <<pipelineVars, rlVars, authVars, recVars, likes_count,
                   lk_kind, lk_user, lk_read>>

\* projects.update({"likes_count": (project likes_count or 0) + 1}) and the
\* response
like_update(r) ==
    /\ lk_pc[r] = "update"
    /\ \/ /\ StoreReturns
          /\ likes_count' = lk_read[r] + 1
          /\ LikeAnswers(r, 200)
       \/ /\ LikeRaises(r)
          /\ UNCHANGED likes_count
    /\ UNCHANGED <<pipelineVars, rlVars, authVars, recVars, project_likes,
                   lk_kind, lk_user, lk_read>>

\* DELETE /projects/{id}/like: the select of the project row with its
\* likes_count
unlike_project(r, u) ==
    /\ lk_pc[r] = "idle"
    /\ lk_kind' = [lk_kind EXCEPT ![r] = "unlike"]
    /\ lk_user' = [lk_user EXCEPT ![r] = u]
    /\ \/ /\ LikeGoes(r, "delete")
          /\ lk_read' = [lk_read EXCEPT ![r] = likes_count]
       \/ /\ LikeRaises(r)
          /\ UNCHANGED lk_read
    /\ UNCHANGED <<pipelineVars, rlVars, authVars, recVars, likes_count,
                   project_likes>>

\* project_likes.delete() of the caller's rows, however many there are
unlike_delete(r) ==
    /\ lk_pc[r] = "delete"
    /\ \/ /\ LikeGoes(r, "decrement")
          /\ project_likes' = [x \in BagToSet(project_likes) \ {lk_user[r]} |->
                                 project_likes[x]]
       \/ /\ LikeRaises(r)
          /\ UNCHANGED project_likes
    /\ UNCHANGED <<pipelineVars, rlVars, authVars, recVars, likes_count,
                   lk_kind, lk_user, lk_read>>

\* projects.update({"likes_count": max(0, (project likes_count or 0) - 1)})
\* and the response
unlike_update(r) ==
    /\ lk_pc[r] = "decrement"
    /\ \/ /\ StoreReturns
          /\ likes_count' = IF lk_read[r] - 1 > 0 THEN lk_read[r] - 1 ELSE 0
          /\ LikeAnswers(r, 200)
       \/ /\ LikeRaises(r)
          /\ UNCHANGED likes_count
    /\ UNCHANGED <<pipelineVars, rlVars, authVars, recVars, project_likes,
                   lk_kind, lk_user, lk_read>>

LikeNext ==
    \/ \E r \in LikeRequests, u \in Users : like_project(r, u)
    \/ \E r \in LikeRequests : like_check(r)
    \/ \E r \in LikeRequests : like_insert(r)
    \/ \E r \in LikeRequests : like_update(r)
    \/ \E r \in LikeRequests, u \in Users : unlike_project(r, u)
    \/ \E r \in LikeRequests : unlike_delete(r)
    \/ \E r \in LikeRequests : unlike_update(r)

LikeSpec == Init /\ [][LikeNext]_vars

\* ----------------------------------------------------------- Next
\* The job pipeline: request handlers and job runs of all jobs.  The
\* requests leave the model at its schema default (JobCreate.model is
\* "nano_banana", JobQueueRequest.model is None, model_pref is "nano_banana").
Next ==
    \/ \E u \in Users, j \in Jobs : create_job(u, j, "nano_banana")
    \/ \E u \in Users, j \in Jobs : queue_generation(u, j, Unset, "nano_banana")
    \/ \E j \in Jobs : queue_update_credits(j)
    \/ \E j \in Jobs : queue_audit(j)
    \/ \E j \in Jobs : _fetch_job(j)
    \/ \E j \in Jobs : set_running(j)
    \/ \E j \in Jobs : _fetch_project_and_prompt(j)
    \/ \E j \in Jobs : validate_credits(j)
    \/ \E j \in Jobs : deduct_credits(j)
    \/ \E j \in Jobs : audit_deduct(j)
    \/ \E j \in Jobs : generate(j, DefaultPayloads)
    \/ \E j \in Jobs : _save_results(j)
    \/ \E j \in Jobs : set_succeeded(j)
    \/ \E j \in Jobs : set_failed(j)
    \/ \E j \in Jobs : refund_read(j)
    \/ \E j \in Jobs : refund_write(j)
    \/ \E j \in Jobs : refund_audit(j)

Spec == Init /\ [][Next]_vars

\* The credit ledger: every writer of users.credits and audit.  One job, of
\* either user, interleaves with u1 applying u2's referral code, so the job's
\* owner is the referred user or the referrer.
LedgerJobs == {1}
LedgerApplicants == {"u1"}

LedgerNext ==
    \/ \E u \in Users, j \in LedgerJobs : create_job(u, j, "nano_banana")
    \/ \E u \in Users, j \in LedgerJobs :
          queue_generation(u, j, Unset, "nano_banana")
    \/ \E j \in LedgerJobs : queue_update_credits(j)
    \/ \E j \in LedgerJobs : queue_audit(j)
    \/ \E j \in LedgerJobs : _fetch_job(j)
    \/ \E j \in LedgerJobs : set_running(j)
    \/ \E j \in LedgerJobs : _fetch_project_and_prompt(j)
    \/ \E j \in LedgerJobs : validate_credits(j)
    \/ \E j \in LedgerJobs : deduct_credits(j)
    \/ \E j \in LedgerJobs : audit_deduct(j)
    \/ \E j \in LedgerJobs : generate(j, DefaultPayloads)
    \/ \E j \in LedgerJobs : _save_results(j)
    \/ \E j \in LedgerJobs : set_succeeded(j)
    \/ \E j \in LedgerJobs : set_failed(j)
    \/ \E j \in LedgerJobs : refund_read(j)
    \/ \E j \in LedgerJobs : refund_write(j)
    \/ \E j \in LedgerJobs : refund_audit(j)
    \/ \E u \in LedgerApplicants : referral_start(u)
    \/ \E u \in LedgerApplicants : referral_check_use(u)
    \/ \E u \in LedgerApplicants : referral_insert_use(u)
    \/ \E u \in LedgerApplicants : referral_update_count(u)
    \/ \E u \in LedgerApplicants : referral_credit_referred(u)
    \/ \E u \in LedgerApplicants : referral_read_referrer(u)
    \/ \E u \in LedgerApplicants : referral_credit_referrer(u)
    \/ \E u \in LedgerApplicants : referral_audit(u)

LedgerSpec == Init /\ [][LedgerNext]_vars

\* The choice of model: one job, whose request names any identifier or
\* none, for a project whose prompt row holds any model_pref or none.
RoutingJobs == {1}

RoutingNext ==
    \/ \E u \in Users, j \in RoutingJobs, m \in RequestModels : create_job(u, j, m)
    \/ \E u \in Users, j \in RoutingJobs, m \in RequestModels, p \in RequestModels :
          queue_generation(u, j, m, p)
    \/ \E j \in RoutingJobs : queue_update_credits(j)
    \/ \E j \in RoutingJobs : queue_audit(j)
    \/ \E j \in RoutingJobs : _fetch_job(j)
    \/ \E j \in RoutingJobs : set_running(j)
    \/ \E j \in RoutingJobs : _fetch_project_and_prompt(j)
    \/ \E j \in RoutingJobs : validate_credits(j)
    \/ \E j \in RoutingJobs : deduct_credits(j)
    \/ \E j \in RoutingJobs : audit_deduct(j)
    \/ \E j \in RoutingJobs : generate(j, DefaultPayloads)
    \/ \E j \in RoutingJobs : _save_results(j)
    \/ \E j \in RoutingJobs : set_succeeded(j)
    \/ \E j \in RoutingJobs : set_failed(j)
    \/ \E j \in RoutingJobs : refund_read(j)
    \/ \E j \in RoutingJobs : refund_write(j)
    \/ \E j \in RoutingJobs : refund_audit(j)

RoutingSpec == Init /\ [][RoutingNext]_vars

\* process() on a jobs row whose model column holds any identifier:
\* process_thumbnail_job_sync takes a job id and reads the row as it is.
\* The row of job 1 is queued and its run is scheduled.
DispatchJobs == {1}

RunInit(models, reflists) ==
    /\ \E s \in PriorSpend :
        LET spent == [u \in Users |-> IF u = "u1" THEN s ELSE 0]
        IN  /\ credits = [u \in Users |-> SignupGrant - spent[u]]
            /\ audit = PriorAudit(spent)
            /\ current_credits = [j \in Jobs |->
                                    IF j \in DispatchJobs
                                    THEN SignupGrant - spent["u1"] ELSE 0]
    /\ \E m \in models :
        jobs = [j \in Jobs |->
                  IF j \in DispatchJobs
                  THEN NewJobRow("u1", m, "std",
                                 calculate_job_credits(
                                   [quality |-> "std",
                                    mode |-> ProjectOf("u1").mode,
                                    model |-> m]))
                  ELSE NoJob]
    /\ renders = {}
    /\ storage = {}
    /\ scheduled = DispatchJobs
    /\ faults = 0
    /\ statusWrites = [j \in Jobs |-> IF j \in DispatchJobs THEN <<"queued">> ELSE <<>>]
    /\ req_pc = [j \in Jobs |-> IF j \in DispatchJobs THEN "returned" ELSE "idle"]
    /\ req_model = [j \in Jobs |-> Unset]
    /\ req_pref = [j \in Jobs |-> Unset]
    /\ pc = [j \in Jobs |-> "idle"]
    /\ user_credits = [j \in Jobs |-> 0]
    /\ required_credits = [j \in Jobs |-> 0]
    /\ project = [j \in Jobs |-> FALSE]
    /\ error = [j \in Jobs |-> "none"]
    /\ images = [j \in Jobs |-> 0]
    /\ i = [j \in Jobs |-> 0]
    /\ saved_count = [j \in Jobs |-> 0]
    /\ refunded_credits = [j \in Jobs |-> 0]
    /\ provider = [j \in Jobs |-> "none"]
    /\ ledger = [j \in Jobs |-> <<>>]
    /\ referral_uses = EmptyBag
    /\ uses_count = [u \in Users |-> 0]
    /\ ref_pc = [u \in Users |-> "idle"]
    /\ ref_user = [u \in Users |-> 0]
    /\ ref_code_uses = [u \in Users |-> 0]
    /\ referrer_credits = [u \in Users |-> 0]
    /\ RateInit
    /\ AuthInit({TRUE})
    /\ RecInit({TRUE})
    /\ LikeInit
    /\ IoInit(reflists, DispatchJobs)
    /\ handed = [j \in Jobs |-> IF j \in DispatchJobs THEN 1 ELSE 0]

DispatchInit == RunInit(ModelIds, RefLists)

DispatchNext ==
    \/ \E j \in DispatchJobs : _fetch_job(j)
    \/ \E j \in DispatchJobs : set_running(j)
    \/ \E j \in DispatchJobs : _fetch_project_and_prompt(j)
    \/ \E j \in DispatchJobs : validate_credits(j)
    \/ \E j \in DispatchJobs : deduct_credits(j)
    \/ \E j \in DispatchJobs : audit_deduct(j)
    \/ \E j \in DispatchJobs : _download_reference_images(j)
    \/ \E j \in DispatchJobs : generate(j, DefaultPayloads)
    \/ \E j \in DispatchJobs : _save_results(j)
    \/ \E j \in DispatchJobs : set_succeeded(j)
    \/ \E j \in DispatchJobs : set_failed(j)
    \/ \E j \in DispatchJobs : refund_read(j)
    \/ \E j \in DispatchJobs : refund_write(j)
    \/ \E j \in DispatchJobs : refund_audit(j)

DispatchSpec == DispatchInit /\ [][DispatchNext]_vars

\* One run of a job whose provider may return any payloads.
PersistInit == RunInit({"nano_banana"}, {<<>>})

PersistNext ==
    \/ \E j \in DispatchJobs : _fetch_job(j)
    \/ \E j \in DispatchJobs : set_running(j)
    \/ \E j \in DispatchJobs : _fetch_project_and_prompt(j)
    \/ \E j \in DispatchJobs : validate_credits(j)
    \/ \E j \in DispatchJobs : deduct_credits(j)
    \/ \E j \in DispatchJobs : audit_deduct(j)
    \/ \E j \in DispatchJobs : generate(j, Payloads)
    \/ \E j \in DispatchJobs : _save_results(j)
    \/ \E j \in DispatchJobs : set_succeeded(j)
    \/ \E j \in DispatchJobs : set_failed(j)
    \/ \E j \in DispatchJobs : refund_read(j)
    \/ \E j \in DispatchJobs : refund_write(j)
    \/ \E j \in DispatchJobs : refund_audit(j)

PersistSpec == PersistInit /\ [][PersistNext]_vars

\* ------------------------------------------------------- vocabulary
\* process() has returned its summary, or an exception has left it.
Ended(j) == pc[j] \in {"returned", "raised"}

\* No other job exists: nothing else touches the owner's balance.
Solo(j) == \A k \in Jobs \ {j} : jobs[k].status = "absent"

IsPrefix(s, t) == Len(s) <= Len(t) /\ \A n \in 1..Len(s) : s[n] = t[n]

\* Audit rows of job j with the given action and delta.
AuditRows(j, action, delta) ==
    CopiesIn(AuditRow(Owner(j), action, delta, j), audit)

\* Writes of the given kind that run j made to users.credits.
Writes(j, kind) == Cardinality({n \in 1..Len(ledger[j]) : ledger[j][n][1] = kind})

Deducted(j) == Writes(j, "deduct") > 0

\* ---------------------------------------------------------- claims
\* C1: the values written to jobs.status over a job's lifetime are
\* [queued], [queued, running, succeeded] or [queued, running, failed],
\* whichever call raises; running is never skipped and nothing follows
\* a terminal status.
C1_StatusSequence ==
    \A j \in Jobs :
        jobs[j].status # "absent" =>
            \/ IsPrefix(statusWrites[j], <<"queued", "running", "succeeded">>)
            \/ IsPrefix(statusWrites[j], <<"queued", "running", "failed">>)

\* C2: a job is debited exactly once: enqueued with balance B >= cost and
\* processed with nothing else touching the user and no call raising, the
\* balance ends B - cost when the job succeeded and B when it failed.
C2_DebitedOnce ==
    \A j \in Jobs :
        (Ended(j) /\ Solo(j) /\ faults = 0 /\ current_credits[j] >= JobCost(j)) =>
            /\ jobs[j].status = "succeeded" =>
                 credits[Owner(j)] = current_credits[j] - JobCost(j)
            /\ jobs[j].status = "failed" =>
                 credits[Owner(j)] = current_credits[j]

\* C3: a run that ends failed after the decremented balance was written
\* leaves a refund_credits row with delta +cost and the balance it read
\* before the deduction, whichever later step raised.
C3_RefundOnFailure ==
    \A j \in Jobs :
        (Ended(j) /\ Solo(j) /\ jobs[j].status = "failed" /\ Deducted(j)) =>
            /\ AuditRows(j, "refund_credits", JobCost(j)) >= 1
            /\ credits[Owner(j)] = user_credits[j]

\* C4: when the balance read is lower than the cost, the run writes
\* nothing to users.credits, inserts no deduct_credits and no
\* refund_credits row, calls no provider, and the job ends failed with the
\* balance unchanged.
C4_InsufficientCredits ==
    \A j \in Jobs :
        (Ended(j) /\ error[j] = "InsufficientCredits") =>
            /\ ledger[j] = <<>>
            /\ AuditRows(j, "deduct_credits", -JobCost(j)) = 0
            /\ AuditRows(j, "refund_credits", JobCost(j)) = 0
            /\ provider[j] = "none"
            /\ jobs[j].status = "failed"
            /\ Solo(j) => credits[Owner(j)] = user_credits[j]

\* No request and no job run is in progress.
Quiescent ==
    /\ \A j \in Jobs : req_pc[j] \in {"idle", "returned", "raised"}
    /\ \A j \in Jobs : pc[j] \in {"idle", "returned", "raised"}
    /\ \A u \in Users : ref_pc[u] = "idle"

RECURSIVE SumDeltas(_)
SumDeltas(rows) ==
    IF rows = {} THEN 0
    ELSE LET r == CHOOSE x \in rows : TRUE
         IN  r.delta_credits * CopiesIn(r, audit) + SumDeltas(rows \ {r})

\* The sum of delta_credits over the user's audit rows.
AuditTotal(u) == SumDeltas({r \in BagToSet(audit) : r.user_id = u})

\* C5: whenever nothing is in progress, the signup grant plus the sum of
\* the user's audit deltas equals users.credits (here even when no store
\* call has raised).
C5_LedgerMatchesBalance ==
    (Quiescent /\ faults = 0) =>
        \A u \in Users : SignupGrant + AuditTotal(u) = credits[u]

\* C6: users.credits is never negative.
C6_NonNegative == \A u \in Users : credits[u] >= 0

\* C6 witness: two runs of one user have both written their deduction and
\* the balance is exhausted.
C6_Witness ==
    \E j, k \in Jobs :
        /\ j # k
        /\ Deducted(j) /\ Deducted(k)
        /\ Owner(j) = Owner(k)
        /\ credits[Owner(j)] = 0

\* Two runs of one user read the same balance, both passed the check, and
\* both have written their deduction; neither has refunded, and no other
\* job of that user exists.
Raced(j, k) ==
    /\ j # k
    /\ Owner(j) = Owner(k)
    /\ ledger[j] = <<<<"deduct", -JobCost(j)>>>>
    /\ ledger[k] = <<<<"deduct", -JobCost(k)>>>>
    /\ user_credits[j] = user_credits[k]
    /\ \A m \in Jobs \ {j, k} : jobs[m].status = "absent" \/ Owner(m) # Owner(j)

\* C7 as stated: when both runs deducted from one snapshot that does not
\* cover both costs, the balance has become negative.
C7_BalanceGoesNegative ==
    \A j, k \in Jobs :
        (Raced(j, k) /\ user_credits[j] < JobCost(j) + JobCost(k)) =>
            credits[Owner(j)] < 0

\* C7 amended: two interleaved runs can both pass the check on one
\* snapshot, and then each writes snapshot - cost: the balance is the
\* snapshot less ONE cost (one deduction is lost) and is not negative.
C7_LostUpdate ==
    \A j, k \in Jobs :
        Raced(j, k) =>
            /\ credits[Owner(j)] \in {user_credits[j] - JobCost(j),
                                      user_credits[k] - JobCost(k)}
            /\ credits[Owner(j)] >= 0

\* C7 witness: both runs deducted from a snapshot that covers one cost only.
C7_Witness ==
    \E j, k \in Jobs :
        Raced(j, k) /\ user_credits[j] < JobCost(j) + JobCost(k)

\* C8: one run makes at most one deduction and at most one refund, and a
\* refund only after a deduction of the same run.
C8_OneDeductionOneRefund ==
    \A j \in Jobs :
        \/ ledger[j] = <<>>
        \/ /\ Len(ledger[j]) \in {1, 2}
           /\ ledger[j][1][1] = "deduct"
           /\ Len(ledger[j]) = 2 => ledger[j][2][1] = "refund"

\* C8 witness: a run has deducted and then refunded.
C8_Witness == \E j \in Jobs : Len(ledger[j]) = 2 /\ ledger[j][2][1] = "refund"

\* C9: every write a run makes to users.credits is matched by exactly one
\* audit row of the same job with the same signed delta, also when the
\* store call after the write raises.
C9_WriteHasAuditRow ==
    \A j \in Jobs :
        Ended(j) =>
            /\ AuditRows(j, "deduct_credits", -JobCost(j)) = Writes(j, "deduct")
            /\ AuditRows(j, "refund_credits", JobCost(j)) = Writes(j, "refund")

\* C10: a run on a queued job leaves it succeeded or failed, never running.
C10_EndsTerminal ==
    \A j \in Jobs : Ended(j) => jobs[j].status \in {"succeeded", "failed"}

\* C11: process() never raises: whatever step raised, also the status
\* write of the handler itself, the run ends by returning a summary.
C11_NeverRaises == \A j \in Jobs : pc[j] # "raised"

\* The handler has written failed and gone into _refund_credits, and the
\* run is over without the refund's audit row: a store call of
\* _refund_credits raised.
RefundFailed(j) ==
    /\ Ended(j)
    /\ \E n \in 1..Len(statusWrites[j]) : statusWrites[j][n] = "failed"
    /\ NeedsRefund(required_credits[j], project[j])
    /\ AuditRows(j, "refund_credits", required_credits[j]) = 0

\* C12: when a store call inside _refund_credits raises, process() still
\* returns its failure summary, the job's status stays failed, and the run
\* has made no second refund attempt.
C12_RefundBestEffort ==
    \A j \in Jobs :
        RefundFailed(j) =>
            /\ pc[j] = "returned"
            /\ error[j] # "none"
            /\ jobs[j].status = "failed"
            /\ Writes(j, "refund") <= 1

\* C12 witness: the refund's audit insert raised after the balance write,
\* and the run has returned.
C12_Witness ==
    \E j \in Jobs : RefundFailed(j) /\ Writes(j, "refund") = 1

\* Some image of job j was uploaded and recorded in renders.
Persisted(j) == \E v \in 0..MaxImages : <<j, v>> \in storage /\ <<j, v>> \in renders

\* C13: a run that returned left the job succeeded exactly when the
\* provider returned at least one image and at least one image was both
\* uploaded and recorded in renders, and left it failed otherwise.
C13_SucceededIffPersisted ==
    \A j \in Jobs :
        pc[j] = "returned" =>
            /\ jobs[j].status = "succeeded" <=> (images[j] >= 1 /\ Persisted(j))
            /\ ~(images[j] >= 1 /\ Persisted(j)) => jobs[j].status = "failed"

\* A request handler has inserted the row of job j.
Inserted(j) == req_pc[j] # "idle" /\ jobs[j].status # "absent"

\* C14: every job row inserted by create_job or queue_generation has a
\* model of the allow-list: an allow-listed request model is stored as it
\* is; an unset one becomes the prompt row's model_pref when that is
\* allow-listed (queue_generation); every other request is stored with
\* nano_banana, and none is rejected for its model.
C14_ModelAllowListed ==
    \A j \in Jobs :
        Inserted(j) =>
            /\ jobs[j].model \in available_models
            /\ req_model[j] \in available_models => jobs[j].model = req_model[j]
            /\ (req_model[j] = Unset /\ req_pref[j] \in available_models) =>
                   jobs[j].model = req_pref[j]
            /\ (req_model[j] \notin available_models \cup {Unset}) =>
                   jobs[j].model = "nano_banana"
            /\ (req_model[j] = Unset /\ req_pref[j] \notin available_models) =>
                   jobs[j].model = "nano_banana"

\* C14 witness: a request naming an unknown model was accepted and its
\* row stored, although the prompt row prefers an allow-listed model.
C14_Witness ==
    \E j \in Jobs :
        /\ Inserted(j)
        /\ req_model[j] = "dalle"
        /\ req_pref[j] = "seedream"
        /\ jobs[j].model = "nano_banana"

\* The run of job j has been through step 5 of process(): the deduction
\* returned and the provider dispatch is behind it.
PastGenerate(j) == required_credits[j] > 0 /\ pc[j] \notin {"download", "generate"}

\* The family the substring tests give when taken in the order gemini or
\* nano, then seedream or bytedance, then fal.
FirstMatch(model) ==
    LET K == Keywords(model)
    IN  IF K \cap {"gemini", "nano"} # {} THEN "gemini"
        ELSE IF K \cap {"seedream", "bytedance"} # {} THEN "bytedance"
        ELSE IF K \cap {"fal"} # {} THEN "fal"
        ELSE "none"

\* C15: for every model identifier the run invokes at most one provider
\* family, the first that matches in the order gemini or nano, seedream or
\* bytedance, fal; every allow-listed model reaches a provider; an
\* identifier matching none invokes no provider, yields no image and the
\* run fails with "No images generated", never ending succeeded.
C15_ProviderRouting ==
    \A j \in Jobs :
        jobs[j].status # "absent" =>
            /\ provider[j] \in {"none", FirstMatch(jobs[j].model)}
            /\ PastGenerate(j) => provider[j] = FirstMatch(jobs[j].model)
            /\ jobs[j].model \in available_models => FirstMatch(jobs[j].model) # "none"
            /\ FirstMatch(jobs[j].model) = "none" =>
                   /\ images[j] = 0
                   /\ jobs[j].status # "succeeded"
                   /\ PastGenerate(j) => error[j] = "NoImages"
                   /\ (PastGenerate(j) /\ pc[j] = "returned") =>
                          jobs[j].status = "failed"

\* C15 witness: a run on an identifier that no test matches has been
\* through the dispatch and ended failed for lack of images.
C15_Witness ==
    \E j \in Jobs :
        /\ FirstMatch(jobs[j].model) = "none"
        /\ jobs[j].status = "failed"
        /\ PastGenerate(j)
        /\ error[j] = "NoImages"
        /\ provider[j] = "none"

\* Requests on key k that raised the counter in its w-th window and were
\* let through.
AdmittedIn(k, w) ==
    {r \in Requests : /\ rl_key[r] = k
                      /\ rl_in_window[r] = w
                      /\ rl_current[r] # NoValue
                      /\ rl_pc[r] = "admitted"}

\* C16: between the creation of a key's counter and its expiry at most
\* `times` of the requests that raised the counter are admitted, and every
\* request that raised it above `times` is rejected with 429, under any
\* interleaving of the requests on that key.
C16_AtMostTimes ==
    /\ \A k \in RateKeys, w \in 1..MaxRequests :
           Cardinality(AdmittedIn(k, w)) <= Times
    /\ \A r \in Requests :
           (rl_current[r] > Times /\ rl_pc[r] # "expire") => rl_pc[r] = "rejected"

\* C16 witness: in one window `times` requests were admitted and a further
\* one was rejected.
C16_Witness ==
    \E k \in RateKeys, w \in 1..MaxRequests :
        /\ Cardinality(AdmittedIn(k, w)) = Times
        /\ \E r \in Requests :
              rl_key[r] = k /\ rl_in_window[r] = w /\ rl_pc[r] = "rejected"

\* C17: a request whose increment failed is admitted, a failing expire
\* does not reject the request, and a request is rejected only when it
\* read a counter value above `times`.
C17_FailsOpen ==
    \A r \in Requests :
        /\ (rl_key[r] # "none" /\ rl_current[r] = NoValue) => rl_pc[r] = "admitted"
        /\ rl_pc[r] = "rejected" => rl_current[r] > Times
        /\ (rl_current[r] = 1 /\ rl_pc[r] # "expire") => rl_pc[r] = "admitted"

\* C17 witness: a request was admitted without a counter value although
\* the counter of its key had reached the limit.
C17_Witness ==
    \E r \in Requests :
        /\ rl_pc[r] = "admitted"
        /\ rl_current[r] = NoValue
        /\ rl_counter[rl_key[r]] >= Times

\* Request r is answered by auth_start in this step.
StartAnswers(r) ==
    au_pc[r] = "idle" /\ au_pc'[r] = "done" /\ au_kind'[r] = "start"

\* C18: auth_start answers exists = true, next = password when a users
\* row with the email and a password hash exists, and exists = false,
\* next = create_account when no row has the email; it changes no stored
\* state.
C18_AuthStart ==
    [][\A r \in AuthRequests :
         StartAnswers(r) =>
            /\ UNCHANGED <<storeVars, users_table, referral_uses, uses_count,
                           rl_counter, rl_ttl>>
            /\ au_resp'[r].status = 200 =>
                  /\ (\E x \in users_table :
                         x.email = au_payload'[r].email /\ x.password_hash) =>
                        (au_resp'[r].exists /\ au_resp'[r].next = "password")
                  /\ (\A x \in users_table : x.email # au_payload'[r].email) =>
                        (~au_resp'[r].exists /\ au_resp'[r].next = "create_account")
      ]_vars

\* C18 witness: one request was answered for a known email with a
\* password, another for an email that has no row.
C18_Witness ==
    \E r, q \in AuthRequests :
        /\ au_kind[r] = "start" /\ au_kind[q] = "start"
        /\ au_resp[r].exists /\ au_resp[r].next = "password"
        /\ ~au_resp[q].exists /\ au_resp[q].next = "create_account"
        /\ \A x \in users_table : x.email # au_payload[q].email

\* C19: a signup answered 201 has inserted exactly one users row, and its
\* body is made of the new user's id and next = confirm_email.
C19_SignupResponse ==
    \A r \in AuthRequests :
        (au_kind[r] = "signup" /\ au_resp[r].status = 201) =>
            /\ Cardinality({x \in users_table : x.id = au_resp[r].user_id}) = 1
            /\ au_resp[r].keys = {"user_id", "next"}
            /\ au_resp[r].next = "confirm_email"

\* The value s has been written to the status of job j.
Written(j, s) == \E n \in 1..Len(statusWrites[j]) : statusWrites[j][n] = s

\* The run of job j has read the balance in _validate_and_deduct_credits.
BalanceRead(j) ==
    \/ pc[j] \in {"write_credits", "audit_deduct", "download", "generate", "save",
                  "set_succeeded"}
    \/ error[j] = "InsufficientCredits"
    \/ ledger[j] # <<>>

\* The run of job j has been through the provider dispatch.
ProviderCalled(j) ==
    provider[j] # "none" \/ images[j] > 0 \/ error[j] \in {"NoImages", "ProviderError"}

\* C20: within one run the steps occur in order: running is written
\* before the balance is read; the deduction and its audit row are written
\* before the provider call; the provider has returned images before any
\* render is uploaded or recorded; succeeded is written only after the
\* last image was handled.
C20_StepOrder ==
    \A j \in Jobs :
        /\ BalanceRead(j) => Written(j, "running")
        /\ ProviderCalled(j) =>
              /\ Writes(j, "deduct") = 1
              /\ AuditRows(j, "deduct_credits", -JobCost(j)) = 1
        /\ (\E v \in 0..MaxImages : <<j, v>> \in storage \cup renders) =>
              (images[j] >= 1 /\ ProviderCalled(j))
        /\ Written(j, "succeeded") => (images[j] >= 1 /\ i[j] = images[j])

\* C20 witness: a run went through every step with more than one image.
C20_Witness ==
    \E j \in Jobs :
        /\ jobs[j].status = "succeeded"
        /\ images[j] > 1
        /\ i[j] = images[j]
        /\ Persisted(j)

\* s holds elements of t in the order they have in t.
Subsequence(s, t) ==
    \E f \in [1..Len(s) -> 1..Len(t)] :
        /\ \A k \in 1..Len(s) : s[k] = t[f[k]]
        /\ \A k \in 1..Len(s) : \A l \in 1..Len(s) : k < l => f[k] < f[l]

\* C21: an asset whose lookup or download fails is skipped and the
\* assets after it are still gone through in order; the provider call is
\* given exactly the assets that were downloaded; the run does not fail
\* because of a reference.
C21_ReferencesPassed ==
    \A j \in Jobs :
        /\ Subsequence(ref_images[j], SubSeq(prompt_refs[j], 1, ref_pos[j]))
        /\ PastGenerate(j) => ref_pos[j] = Len(prompt_refs[j])
        /\ pc[j] = "download" => error[j] = "none"
        /\ provider[j] # "none" => passed_refs[j] = ref_images[j]

\* C22: the object stored for a bytes or Base64 payload at index v of a
\* job holds that payload's bytes at renders/<job>_<v>.png, the render row
\* of index v points to that path, and two render rows of one job never
\* have the same path.
C22_StoredBytes ==
    /\ \A j \in Jobs : \A v \in 0..(MaxImages - 1) : \A b \in ImageBytes :
          (v < Len(payloads[j])
             /\ payloads[j][v + 1] \in {BytesPayload(b), TextPayload(b)}) =>
              \A o \in objects : o.path = <<"renders", j, v>> => o.bytes = b
    /\ \A row \in render_rows :
          /\ row.thumbnail_path = <<"renders", row.job_id, row.variant>>
          /\ \E o \in objects : o.path = row.thumbnail_path
    /\ \A r1 \in render_rows : \A r2 \in render_rows :
          (r1.job_id = r2.job_id /\ r1.thumbnail_path = r2.thumbnail_path) =>
              r1 = r2

\* C22 witness: a Base64 payload and a bytes payload of one job were both
\* stored and recorded.
C22_Witness ==
    \E j \in Jobs :
        /\ payloads[j] = <<TextPayload(<<137, 80>>), BytesPayload(<<255>>)>>
        /\ [path |-> FileName(j, 0), bytes |-> <<137, 80>>] \in objects
        /\ [path |-> FileName(j, 1), bytes |-> <<255>>] \in objects
        /\ Cardinality({row \in render_rows : row.job_id = j}) = 2

\* C24: a job id is handed to the orchestrator at most once, by the
\* handler that inserted its row and returned; a run exists only for a
\* handed job, and no job is debited twice.
C24_HandedOnce ==
    \A j \in Jobs :
        /\ handed[j] <= 1
        /\ handed[j] = 1 <=> j \in scheduled
        /\ handed[j] = 1 => (req_pc[j] = "returned" /\ jobs[j].status # "absent")
        /\ pc[j] # "idle" => handed[j] = 1
        /\ Writes(j, "deduct") <= 1
        /\ AuditRows(j, "deduct_credits", -JobCost(j)) <= 1

\* C24 witness: a job was handed over, and its run debited it and ended.
C24_Witness ==
    \E j \in Jobs : handed[j] = 1 /\ Ended(j) /\ Writes(j, "deduct") = 1

\* C25: a job that ended failed has no render row.
C25_NoRendersWhenFailed ==
    \A j \in Jobs :
        (Ended(j) /\ jobs[j].status = "failed") =>
            {row \in render_rows : row.job_id = j} = {}

\* C26: every counter key that exists carries an expiry once the request
\* that created it is past its expire call, so that the key is dropped when
\* the window has elapsed.
C26_KeysCarryExpiry ==
    \A k \in RateKeys :
        (rl_counter[k] > 0
           /\ \A r \in Requests : ~(rl_pc[r] = "expire" /\ rl_key[r] = k)) =>
            rl_ttl[k]

\* C23: what resend_confirmation and forgot_password answer does not
\* depend on whether an account exists for the email: a request whose
\* select returned is answered as it is when the store holds no row for
\* the email.
C23_SameResponse ==
    \A r \in RecRequests :
        (rc_pc[r] = "done" /\ rc_resp[r].status # 500) =>
            /\ rc_kind[r] = "resend" => rc_resp[r] = ResendResponse({}, {})
            /\ rc_kind[r] = "forgot" => rc_resp[r] = ForgotResponse({})

\* C27: a reset token authorises at most one successful reset_password.
C27_TokenUsedOnce ==
    \A t \in Tokens :
        Cardinality({r \in RecRequests :
                        /\ rc_kind[r] = "reset"
                        /\ rc_token[r] = t
                        /\ rc_resp[r].status = 200}) <= 1

\* No like or unlike request is between its first and last store call.
LikesQuiescent == \A r \in LikeRequests : lk_pc[r] \in {"idle", "done"}

\* C28: when no like or unlike call is under way, likes_count is the
\* number of project_likes rows, and a user never has two like rows.
C28_LikesCounted ==
    /\ \A u \in Users : CopiesIn(u, project_likes) <= 1
    /\ LikesQuiescent => likes_count = BagCardinality(project_likes)

\* C29: a user has at most one referral_uses row and none for the user's
\* own code, and a code's uses_count is the number of its referral_uses
\* rows whenever no application of the code is between its insert and its
\* count update.
C29_UsesCounted ==
    \A c \in Users :
        /\ ~BagIn(<<c, c>>, referral_uses)
        /\ Cardinality({o \in Users : BagIn(<<o, c>>, referral_uses)}) <= 1
        /\ \A o \in Users : CopiesIn(<<o, c>>, referral_uses) <= 1
        /\ (\A u \in Users : ref_pc[u] # "update_count") =>
              uses_count[c] = Cardinality({u \in Users : BagIn(<<c, u>>, referral_uses)})

====
